---- MODULE Spec2Model ----
(***************************************************************************)
(* A model of the data-collection core of reflectsonar:                    *)
(*   - SonarQubeClient._request       (src/src/api/client.py)              *)
(*   - paginate_api_response          (src/src/api/pagination.py)          *)
(*   - fetch_all_hotspots             (src/src/api/get_data.py)            *)
(*   - detect_sonarqube_mode          (src/src/report/utils.py, pdfgen.py) *)
(*   - get_severity_order             (src/src/report/utils.py, pdfgen.py) *)
(*   - get_issues_by_impact_category  (src/src/report/issues.py, pdfgen.py)*)
(*   - get_rules, get_code_snippet, get_report_data                        *)
(*                                    (src/src/api/get_data.py)            *)
(*   - main, handle_interrupt         (src/src/main.py)                    *)
(* Each component has its own specification (SpecRequest, SpecPaginate,    *)
(* SpecHotspots, SpecMode, SpecSeverity, SpecSections, SpecRules,          *)
(* SpecCollect, SpecMain); the variables of the other components stay at   *)
(* their idle values. get_report_data is also run against a server that    *)
(* serves hotspots in pages of one (SpecCollectPaged), against a project   *)
(* with more issues than one page (SpecCollectLarge) and with weak         *)
(* fairness of its steps (SpecCollectLive).                                *)
(*                                                                         *)
(* Input domains: time is counted in whole seconds (retry_delay and the    *)
(* Retry-After header are whole numbers of seconds), a page of a paginated *)
(* endpoint is a JSON array of items, totals are natural numbers.          *)
(***************************************************************************)
EXTENDS Integers, Sequences, FiniteSets, TLC

\* ------------------------------------------------------------------ bounds
MaxRetries == 3
MaxDelay == 2
MaxRetryAfter == 2
MaxItems == 5
MaxTotal == 6
MaxPageSize == 2
MaxPageCap == 2
MaxServerCap == 1
MaxHotspotRequests == 5
MaxFindings == 2
MaxImpacts == 1
MaxModeCalls == 2
MaxImpactsPerFinding == 2
MaxRuleKeys == 3
MaxIssues == 2
MaxHotspots == 1
MaxPagedHotspots == 2

\* ------------------------------------------------------- program constants
RateLimited == 429
HotspotsPageSize == 500
IssuesPageSize == 500

VARIABLES
    \* SonarQubeClient configuration (client.py __init__)
    max_retries, retry_delay,
    \* one call of SonarQubeClient._request
    rq_pc,        \* "idle" | "loop" (at the while test) | "done"
    rq_stream,    \* the stream argument
    retries,      \* the local retries
    rq_events,    \* what the call did so far: HTTP attempts and sleeps, in order
    rq_slept,     \* the seconds the call spent in time.sleep
    rq_outcome,   \* how the call ended
    \* the server behind a paginated endpoint
    srv_items,    \* the number of items it holds: items 1..srv_items, in its order
    srv_total,    \* the total it reports
    srv_has_total,\* whether its answers carry the total field at all
    srv_cap,      \* the largest page it serves (0: as large as requested)
    srv_mode,     \* "paged": honours p | "stuck": answers every p with page 1
                  \* | "erratic": answers with any number of further items
    srv_issues,   \* the number of issues it holds for the project of get_report_data
    \* paginate_api_response: its arguments
    endpoint, params, page_size, max_pages,
    \* paginate_api_response: its locals
    pg_pc,        \* "idle" | "loop" (at the top of while True) | "done"
    all_items, page, total_items,
    \* paginate_api_response: what the call did
    pg_call,      \* 0 before the first call, then 1, 2: the call in progress
    pg_requests,  \* the params of each get_method call, in order
    pg_pages,     \* the item list each answer carried, in order
    pg_sleeps,    \* the number of time.sleep(0.5) calls
    pg_outcome,   \* "pending" | "return" | "TypeError"
    pg_first,     \* what the first call did, kept when the second one starts
    \* fetch_all_hotspots
    hs_pc,        \* "idle" | "loop" (at the top of while True) | "done"
    all_hotspots, hs_page,
    hs_requests,  \* the p and ps of each hotspots request, in order
    hs_pages,     \* for each request, whether it was answered and the hotspots it carried
    hs_result,    \* the dictionary returned
    \* detect_sonarqube_mode
    md_issues,    \* the finding list the classifier is called on
    md_utils,     \* the modes the calls of report/utils.py's copy returned
    md_pdfgen,    \* the modes the calls of report/pdfgen.py's copy returned
    \* get_severity_order and the category sections of the report
    so_utils,     \* the last call of report/utils.py's get_severity_order: arguments and rank
    so_pdfgen,    \* the last call of report/pdfgen.py's get_severity_order
    cl_issues,    \* report.issues, the finding list the sections are built from
    cl_mode,      \* the mode argument of the generate_*_issues_page functions
    cl_sections,  \* report/issues.py: category -> the findings of its section and their sort keys
    cl_pdf_mode,  \* report/pdfgen.py: the mode generate_pdf detected ("" before it ran)
    cl_pdf_sections, \* report/pdfgen.py: category -> the findings of its section
    \* get_rules
    rl_pc,        \* "idle" | "call" (entered) | "loop" (at the top of the for loop) | "done"
    rule_keys,    \* the argument rule_keys
    rl_idx,       \* the position of the for loop in rule_keys
    rl_rules,     \* the local rules
    rl_requests,  \* the rule key and the answer of each rule request, in order
    rl_result,    \* the dictionary returned
    \* get_report_data
    gd_pc,        \* the position in the function, "idle" before and "done" after
    gd_requests,  \* the requests made through fetch outside hotspots and rules, in order
    component_data, issues_data, measures_data, settings_data, hotspots_data,
    gd_project, gd_issues, gd_measures, gd_hotspots,  \* the locals project, issues, measures, hotspots
    gd_outcome,   \* how the call ended: the ReportData returned or the exception raised
    \* main
    mn_pc,        \* "idle" | "parse" | "collect" | "render" | "done"
    mn_args,      \* the command line: "valid" | "no_project" | "bad_config"
    mn_status,    \* the exit status of the process, None while it runs
    mn_end        \* what ended the run: "success", the except clause taken, "usage" or "sigint"

rqVars == <<max_retries, retry_delay, rq_pc, rq_stream, retries, rq_events, rq_slept, rq_outcome>>
srvVars == <<srv_items, srv_total, srv_has_total, srv_cap, srv_mode, srv_issues>>
hsVars == <<hs_pc, all_hotspots, hs_page, hs_requests, hs_pages, hs_result>>
mdVars == <<md_issues, md_utils, md_pdfgen>>
clVars == <<so_utils, so_pdfgen, cl_issues, cl_mode, cl_sections, cl_pdf_mode, cl_pdf_sections>>
rlVars == <<rl_pc, rule_keys, rl_idx, rl_rules, rl_requests, rl_result>>
gdVars == <<gd_pc, gd_requests, component_data, issues_data, measures_data, settings_data,
            hotspots_data, gd_project, gd_issues, gd_measures, gd_hotspots, gd_outcome>>
mnVars == <<mn_pc, mn_args, mn_status, mn_end>>
pgArgs == <<endpoint, page_size, max_pages>>
pgVars == <<endpoint, params, page_size, max_pages, pg_pc, all_items, page, total_items,
            pg_call, pg_requests, pg_pages, pg_sleeps, pg_outcome, pg_first>>

\* ---------------------------------------------------------------- helpers
Min(a, b) == IF a <= b THEN a ELSE b
Max(a, b) == IF a >= b THEN a ELSE b

\* A Python dict: a function whose DOMAIN is the set of keys.
EmptyDict == [k \in {} |-> 0]
DictGet(d, k, default) == IF k \in DOMAIN d THEN d[k] ELSE default
DictSet(d, k, v) == [x \in DOMAIN d \cup {k} |-> IF x = k THEN v ELSE d[x]]

\* ------------------------------------------- SonarQubeClient._request
Digits == <<"0", "1", "2", "3", "4", "5", "6", "7", "8", "9">>
\* str(n) for a one-digit n, as a server writes it into a header
StrOf(n) == Digits[n + 1]
\* int(s) for a header value s
IntOf(s) == CHOOSE n \in 0..9 : Digits[n + 1] = s

\* The answers of session.request: an HTTP response (status, headers, content)
\* or, with status 0, no response at all: a network or timeout error exc.
HttpResponse(status, headers, content) ==
    [status |-> status, headers |-> headers, content |-> content, exc |-> ""]
NetworkError(exc) ==
    [status |-> 0, headers |-> EmptyDict, content |-> "", exc |-> exc]
NoResponse == [status |-> 0, headers |-> EmptyDict, content |-> "", exc |-> ""]

Contents == {"", "doc1"}
ErrorStatuses == {404, 500}
NetworkExceptions == {"ConnectionError", "Timeout"}
RetryAfterHeaders ==
    {EmptyDict} \cup {[k \in {"Retry-After"} |-> StrOf(n)] : n \in 0..MaxRetryAfter}

OkResponses == {HttpResponse(200, EmptyDict, c) : c \in Contents}
RateLimitResponses == {HttpResponse(RateLimited, h, "slow down") : h \in RetryAfterHeaders}
ErrorResponses == {HttpResponse(s, EmptyDict, "error body") : s \in ErrorStatuses}
NetworkErrors == {NetworkError(e) : e \in NetworkExceptions}

AttemptEvent(resp) == [ev |-> "attempt", resp |-> resp, secs |-> 0]
SleepEvent(secs) == [ev |-> "sleep", resp |-> NoResponse, secs |-> secs]

\* How a call ends.  kind: "pending" | "return" | "raise".
\* value: what is returned ("json", "empty_object", "response", "None").
\* exc: the exception raised; status, body, url, context: what it carries
\* (context is Python's implicit __context__, the exception being handled).
Pending ==
    [kind |-> "pending", value |-> "", payload |-> "", exc |-> "",
     status |-> 0, body |-> "", url |-> "", context |-> ""]
Return(value, payload) ==
    [kind |-> "return", value |-> value, payload |-> payload, exc |-> "",
     status |-> 0, body |-> "", url |-> "", context |-> ""]
Raise(exc, status, body, url, context) ==
    [kind |-> "raise", value |-> "", payload |-> "", exc |-> exc,
     status |-> status, body |-> body, url |-> url, context |-> context]

\* url = urljoin(self.base_url, endpoint)
RequestUrl == "base_url/endpoint"

LoopTestOffByOne(r, maxr) == r <= maxr + 1
\* while retries <= self.max_retries
LoopTest(r, maxr) == r <= maxr

RetryAfterIgnoringHeader(headers, delay) == delay
\* int(response.headers.get('Retry-After', self.retry_delay))
RetryAfterSecs(headers, delay) ==
    IF "Retry-After" \in DOMAIN headers THEN IntOf(headers["Retry-After"]) ELSE delay

\* response.raise_for_status(): an HTTPError for 4xx and 5xx
RaisesForStatus(status) == status >= 400 /\ status < 600

\* the exception e the except clause catches for an answer
CaughtException(resp) == IF resp.status = 0 THEN resp.exc ELSE "HTTPError"

\* if retries < self.max_retries (the except clause)
MayRetry(r, maxr) == r < maxr

\* return handle_api_error(e, url): the name handle_api_error is bound nowhere
\* in client.py (not defined, not imported), so evaluating it raises NameError
\* while e is being handled.
HandleApiErrorCall(e, url) == Raise("NameError", 0, "", "", e)

\* return response.json() if response.content else {}  (and if stream: return response)
SuccessReturn(resp, stream) ==
    IF stream THEN Return("response", resp.content)
    ELSE IF resp.content # "" THEN Return("json", resp.content)
    ELSE Return("empty_object", "")

\* The while test after an iteration that did not return: the next iteration,
\* or the end of the function body (an implicit return None).
AfterIteration(r) ==
    IF LoopTest(r, max_retries)
    THEN rq_pc' = "loop" /\ rq_outcome' = rq_outcome
    ELSE rq_pc' = "done" /\ rq_outcome' = Return("None", "")

\* _request(method, endpoint, params, data, stream) is entered
RequestCall ==
    /\ rq_pc = "idle"
    /\ \E s \in BOOLEAN : rq_stream' = s
    /\ retries' = 0
    /\ rq_events' = <<>>
    /\ rq_slept' = 0
    /\ IF LoopTest(0, max_retries)
       THEN rq_pc' = "loop" /\ rq_outcome' = Pending
       ELSE rq_pc' = "done" /\ rq_outcome' = Return("None", "")
    /\ UNCHANGED <<max_retries, retry_delay>>

\* one iteration answered with HTTP 429
AttemptRateLimited ==
    /\ rq_pc = "loop"
    /\ \E resp \in RateLimitResponses :
         LET retry_after == RetryAfterSecs(resp.headers, retry_delay) IN
         /\ rq_events' = rq_events \o <<AttemptEvent(resp), SleepEvent(retry_after)>>
         /\ rq_slept' = rq_slept + retry_after
         /\ retries' = retries + 1
         /\ AfterIteration(retries + 1)
    /\ UNCHANGED <<max_retries, retry_delay, rq_stream>>

\* one iteration answered with a status that passes raise_for_status
AttemptSuccess ==
    /\ rq_pc = "loop"
    /\ \E resp \in OkResponses :
         /\ ~RaisesForStatus(resp.status)
         /\ rq_events' = Append(rq_events, AttemptEvent(resp))
         /\ rq_outcome' = SuccessReturn(resp, rq_stream)
    /\ rq_pc' = "done"
    /\ UNCHANGED <<max_retries, retry_delay, rq_stream, retries, rq_slept>>

\* one iteration that ends in the except clause: session.request raised a
\* network error, or raise_for_status raised HTTPError (a RequestException)
AttemptFailed ==
    /\ rq_pc = "loop"
    /\ \E resp \in ErrorResponses \cup NetworkErrors :
         /\ resp.status = 0 \/ RaisesForStatus(resp.status)
         /\ IF MayRetry(retries, max_retries)
            THEN /\ rq_events' = rq_events \o <<AttemptEvent(resp), SleepEvent(retry_delay)>>
                 /\ rq_slept' = rq_slept + retry_delay
                 /\ retries' = retries + 1
                 /\ AfterIteration(retries + 1)
            ELSE /\ rq_events' = Append(rq_events, AttemptEvent(resp))
                 /\ rq_outcome' = HandleApiErrorCall(CaughtException(resp), RequestUrl)
                 /\ rq_pc' = "done"
                 /\ UNCHANGED <<retries, rq_slept>>
    /\ UNCHANGED <<max_retries, retry_delay, rq_stream>>

\* ------------------------------------------- claims about _request
IsAttempt(e) == e.ev = "attempt"
IsSleep(e) == e.ev = "sleep"
\* the answers of the HTTP attempts of the call, in order
AttemptsMade ==
    LET made == SelectSeq(rq_events, IsAttempt)
    IN  [i \in 1..Len(made) |-> made[i].resp]
SleepsMade == SelectSeq(rq_events, IsSleep)
IsRateLimit(resp) == resp.status = 429
IsNetworkFailure(resp) == resp.status = 0
IsOtherHttpError(resp) == resp.status >= 400 /\ resp.status < 600 /\ resp.status # 429
IsOk(resp) == resp.status >= 200 /\ resp.status < 400

\* C1 (as claimed): an HTTP 4xx/5xx answer other than 429 is never retried:
\* it is the last thing the call does, no sleep and no attempt follows it, and
\* the call ends with an error that carries the status code and the body.
C1_HttpErrorNotRetried ==
    \A i \in DOMAIN rq_events :
        (IsAttempt(rq_events[i]) /\ IsOtherHttpError(rq_events[i].resp)) =>
            /\ i = Len(rq_events)
            /\ rq_pc = "done"
            /\ rq_outcome.kind = "raise"
            /\ rq_outcome.status = rq_events[i].resp.status
            /\ rq_outcome.body = rq_events[i].resp.content

\* C2 (as claimed): when every attempt fails with a network or timeout error,
\* the call sleeps retry_delay before each retry, retries exactly max_retries
\* times and ends with a RequestFailed error carrying the URL and the cause.
AllAttemptsNetworkFailures ==
    /\ Len(AttemptsMade) >= 1
    /\ \A i \in DOMAIN AttemptsMade : IsNetworkFailure(AttemptsMade[i])
C2_NetworkErrorsEndInRequestFailed ==
    (rq_pc = "done" /\ AllAttemptsNetworkFailures) =>
        /\ Len(AttemptsMade) = max_retries + 1
        /\ Len(SleepsMade) = max_retries
        /\ \A i \in DOMAIN SleepsMade : SleepsMade[i].secs = retry_delay
        /\ rq_outcome.kind = "raise"
        /\ rq_outcome.exc = "RequestFailed"
        /\ rq_outcome.url = RequestUrl
        /\ rq_outcome.context = AttemptsMade[Len(AttemptsMade)].exc

\* C3: every 429 answer is followed at once by a sleep of the seconds its
\* Retry-After header names (retry_delay when the header is absent), and an
\* attempt other than the first comes only after a sleep; 429 answers and
\* failures draw on one budget, so a call makes at most max_retries + 1
\* attempts; the call always terminates: it is never stuck before its end and
\* it takes a bounded number of steps.
SecondsNamed(resp) ==
    IF "Retry-After" \in DOMAIN resp.headers
    THEN CHOOSE n \in 0..9 : StrOf(n) = resp.headers["Retry-After"]
    ELSE retry_delay
C3_RateLimitSleepThenRetryWithinBudget ==
    /\ \A i \in DOMAIN rq_events :
          (IsAttempt(rq_events[i]) /\ IsRateLimit(rq_events[i].resp)) =>
              /\ i + 1 \in DOMAIN rq_events
              /\ IsSleep(rq_events[i + 1])
              /\ rq_events[i + 1].secs = SecondsNamed(rq_events[i].resp)
    /\ \A i \in DOMAIN rq_events :
          (IsAttempt(rq_events[i]) /\ i > 1) => IsSleep(rq_events[i - 1])
    /\ Len(AttemptsMade) <= max_retries + 1
    /\ Len(SleepsMade) <= max_retries + 1
    /\ rq_pc = "loop" => ENABLED (AttemptRateLimited \/ AttemptSuccess \/ AttemptFailed)
    /\ rq_pc = "loop" => Len(AttemptsMade) <= max_retries

\* C3 witness: a finished call that met both a 429 and a network error and
\* used the whole budget of max_retries + 1 attempts.
C3_Witness ==
    /\ rq_pc = "done"
    /\ max_retries = 2
    /\ Len(AttemptsMade) = max_retries + 1
    /\ \E i \in DOMAIN AttemptsMade : IsRateLimit(AttemptsMade[i])
    /\ \E i \in DOMAIN AttemptsMade : IsNetworkFailure(AttemptsMade[i])

\* C4: if the first k attempts are answered with 429 and Retry-After r and
\* attempt k+1 succeeds, the call returns the payload of that answer and has
\* slept at least k*r seconds.
RateLimitedThenSuccessIn(made, k, r) ==
    /\ Len(made) = k + 1
    /\ \A i \in 1..k :
          /\ IsRateLimit(made[i])
          /\ "Retry-After" \in DOMAIN made[i].headers
          /\ made[i].headers["Retry-After"] = StrOf(r)
    /\ IsOk(made[k + 1])
RateLimitedThenSuccess(k, r) == RateLimitedThenSuccessIn(AttemptsMade, k, r)
C4_RetryAfterWaitThenPayload ==
    rq_pc = "done" =>
        LET made == AttemptsMade IN
        \A k \in 0..Len(made), r \in 0..9 :
            RateLimitedThenSuccessIn(made, k, r) =>
                /\ k <= max_retries
                /\ rq_outcome.kind = "return"
                /\ rq_outcome.value \in {"json", "empty_object", "response"}
                /\ rq_outcome.payload = made[k + 1].content
                /\ rq_slept >= k * r

\* C4 witness: two 429 answers with Retry-After: 1, then a success; the
\* payload is returned after 2 seconds of sleep.
C4_Witness ==
    /\ rq_pc = "done"
    /\ RateLimitedThenSuccess(2, 1)
    /\ rq_outcome.value = "json"
    /\ rq_outcome.payload = "doc1"
    /\ rq_slept = 2

\* C5 (as claimed): every call (stream = False) ends either with the decoded
\* JSON of a successful answer, an empty object for an empty body, or with an
\* error; never with an absent result.
C5_JsonOrError ==
    (rq_pc = "done" /\ ~rq_stream) =>
        \/ rq_outcome.kind = "raise"
        \/ rq_outcome.kind = "return" /\ rq_outcome.value \in {"json", "empty_object"}

\* -------------------------------------------------------------------------
\* paginate_api_response (src/src/api/pagination.py)
\* -------------------------------------------------------------------------
\* total_items = None
None == -1

IssuesEndpoint == "api/issues/search"
HotspotsEndpoint == "api/hotspots/search"
GenericEndpoint == "api/components/search"
Endpoints == {IssuesEndpoint, HotspotsEndpoint, GenericEndpoint}

\* the data_field, after the endpoint test of lines 37-51 ('components' is
\* the default of the parameter)
DataField(ep) ==
    IF ep = IssuesEndpoint THEN "issues"
    ELSE IF ep = HotspotsEndpoint THEN "hotspots"
    ELSE "components"

\* the total_field, after the endpoint test of lines 37-51
TotalField(ep) == IF ep = IssuesEndpoint THEN "total" ELSE "paging.total"

\* '.' in name, name.split('.')
HasDot(name) == name = "paging.total"
SplitDots(name) == IF name = "paging.total" THEN <<"paging", "total">> ELSE <<name>>

\* ---- the server behind get_method(endpoint, params)
ServerPageSize(ps) == IF srv_cap = 0 THEN ps ELSE Min(ps, srv_cap)
ServerPage(p, ps) ==
    LET sz == ServerPageSize(ps)
        eff == IF srv_mode = "stuck" THEN 1 ELSE p
        lo == (eff - 1) * sz + 1
        hi == Min(eff * sz, srv_items)
    IN  [i \in 1..Max(0, hi - lo + 1) |-> lo + i - 1]
\* the pages the server may answer a request with, sent is the number of
\* items it has sent so far: its page p, or, when erratic, any number of
\* further items up to ps
ServerPages(p, ps, sent) ==
    IF srv_mode = "erratic"
    THEN {[i \in 1..n |-> sent + i] : n \in 0..Min(ps, MaxPageSize)}
    ELSE {ServerPage(p, ps)}
\* The JSON object it answers with: the item array under the endpoint's own
\* field name, and the total where the endpoint puts it (top-level total for
\* issues, paging.total for the others), if it reports a total at all.
ServerResponse(ep, prm, items) ==
    LET field == DataField(ep)
        paging == [k \in {"pageIndex", "pageSize"} \cup (IF srv_has_total THEN {"total"} ELSE {}) |->
                     IF k = "pageIndex" THEN prm["p"]
                     ELSE IF k = "pageSize" THEN prm["ps"]
                     ELSE srv_total]
        keys == {field, "paging"} \cup
                (IF ep = IssuesEndpoint /\ srv_has_total THEN {"total"} ELSE {})
    IN  [k \in keys |-> IF k = field THEN items ELSE IF k = "paging" THEN paging ELSE srv_total]

\* ---- the body of the while loop
\* lines 73-85: items = response.get(data_field, []) (no data field of the
\* three endpoints has a dot, so the nested walk is not taken)
ExtractItems(response, data_field) == DictGet(response, data_field, <<>>)

\* lines 93-104: the total of the first answer
ExtractTotal(response, total_field) ==
    IF HasDot(total_field)
    THEN LET parts == SplitDots(total_field) IN
         \* `if temp and part in temp`: response is never empty
         IF parts[1] \notin DOMAIN response THEN None
         ELSE LET temp == response[parts[1]] IN
              \* an empty paging object is falsy
              IF DOMAIN temp # {} /\ parts[2] \in DOMAIN temp THEN temp[parts[2]]
              ELSE None
    ELSE DictGet(response, total_field, 0)

\* line 109: if max_pages and page >= max_pages
ReachedPageCap(cap, pg) == cap # 0 /\ pg >= cap

StopTestStrict(count, total, items) == count > total \/ items = <<>>
StopTestCountOnly(count, total, items) == count >= total
\* line 115: if items_count >= total_items or not items
StopTest(count, total, items) == count >= total \/ items = <<>>

PaginateCallKeepingPage ==
    /\ pg_pc \in {"idle", "done"}
    /\ pg_call < 2
    /\ pg_call = 1 => srv_mode # "erratic"
    /\ pg_call' = pg_call + 1
    /\ pg_first' = [requests |-> pg_requests, result |-> all_items,
                    outcome |-> pg_outcome, params |-> params]
    /\ params' = DictSet(params, "ps", page_size)
    /\ all_items' = <<>>
    /\ page' = DictGet(params, "p", 1)
    /\ total_items' = None
    /\ pg_requests' = <<>>
    /\ pg_pages' = <<>>
    /\ pg_sleeps' = 0
    /\ pg_outcome' = "pending"
    /\ pg_pc' = "loop"
    /\ UNCHANGED <<pgArgs, srvVars>>

\* lines 33-58: paginate_api_response(get_method, endpoint, params, page_size,
\* max_pages) is entered; the second call is made with the same arguments and
\* the same params object against the same server state (a server that
\* answers a request the same way each time, so not an erratic one)
PaginateCall ==
    /\ pg_pc \in {"idle", "done"}
    /\ pg_call < 2
    /\ pg_call = 1 => srv_mode # "erratic"
    /\ pg_call' = pg_call + 1
    /\ pg_first' = [requests |-> pg_requests, result |-> all_items,
                    outcome |-> pg_outcome, params |-> params]
    /\ params' = DictSet(params, "ps", page_size)
    /\ all_items' = <<>>
    /\ page' = 1
    /\ total_items' = None
    /\ pg_requests' = <<>>
    /\ pg_pages' = <<>>
    /\ pg_sleeps' = 0
    /\ pg_outcome' = "pending"
    /\ pg_pc' = "loop"
    /\ UNCHANGED <<pgArgs, srvVars>>

\* lines 60-119: one iteration of while True
FetchPage ==
    /\ pg_pc = "loop"
    /\ LET params1 == DictSet(params, "p", page) IN
       \E served \in ServerPages(page, params1["ps"], Len(all_items)) :
       LET response == ServerResponse(endpoint, params1, served)
           items == ExtractItems(response, DataField(endpoint))
           all1 == all_items \o items
           total1 == IF total_items = None
                     THEN ExtractTotal(response, TotalField(endpoint))
                     ELSE total_items
       IN  /\ params' = params1
           /\ pg_sleeps' = IF page > 1 THEN pg_sleeps + 1 ELSE pg_sleeps
           /\ pg_requests' = Append(pg_requests, params1)
           /\ pg_pages' = Append(pg_pages, items)
           /\ all_items' = all1
           /\ total_items' = total1
           /\ IF ReachedPageCap(max_pages, page)
              THEN pg_pc' = "done" /\ pg_outcome' = "return" /\ page' = page
              \* items_count >= None raises TypeError
              ELSE IF total1 = None
              THEN pg_pc' = "done" /\ pg_outcome' = "TypeError" /\ page' = page
              ELSE IF StopTest(Len(all1), total1, items)
              THEN pg_pc' = "done" /\ pg_outcome' = "return" /\ page' = page
              ELSE pg_pc' = "loop" /\ pg_outcome' = pg_outcome /\ page' = page + 1
    /\ UNCHANGED <<pgArgs, pg_call, pg_first, srvVars>>

\* ------------------------------------ claims about paginate_api_response
RECURSIVE Flatten(_)
Flatten(pages) == IF pages = <<>> THEN <<>> ELSE Head(pages) \o Flatten(Tail(pages))
CeilDiv(n, d) == (n + d - 1) \div d

\* the server holds N > 0 items, reports total = N and serves pages of the
\* requested size, in order
FaithfulServer ==
    /\ srv_items > 0
    /\ srv_has_total
    /\ srv_total = srv_items
    /\ srv_cap = 0
    /\ srv_mode = "paged"
\* no page cap, or one that does not cut the run short
CapNotBinding == max_pages = 0 \/ max_pages >= CeilDiv(srv_items, page_size)

\* C6: against a server that holds N > 0 items, reports total = N and serves
\* pages of the requested size S, a finished call has made exactly ceil(N/S)
\* requests, for pages 1, 2, ... in order with ps = S, each full but the last,
\* and returns exactly the items 1..N in server order; for the issues
\* endpoint (top-level total) and the hotspots endpoint (paging.total) alike.
C6_PaginatorCollectsAllInOrder ==
    (pg_pc = "done" /\ FaithfulServer /\ CapNotBinding) =>
        LET n == CeilDiv(srv_items, page_size) IN
        /\ pg_outcome = "return"
        /\ Len(pg_requests) = n
        /\ \A i \in 1..n :
              /\ pg_requests[i]["p"] = i
              /\ pg_requests[i]["ps"] = page_size
              /\ Len(pg_pages[i]) =
                    IF i < n THEN page_size ELSE srv_items - (n - 1) * page_size
        /\ all_items = [i \in 1..srv_items |-> i]

\* C6 witness: 5 items in pages of 2 on the hotspots endpoint: three requests
\* of 2, 2 and 1 items (the shape of 1200 items in pages of 500).
C6_Witness ==
    /\ pg_pc = "done"
    /\ FaithfulServer
    /\ max_pages = 0
    /\ endpoint = HotspotsEndpoint
    /\ srv_items = 5
    /\ page_size = 2
    /\ Len(pg_requests) = 3
    /\ all_items = <<1, 2, 3, 4, 5>>

\* C7: no request is issued after a page with zero items, also when fewer
\* items than the reported total were accumulated, and what was accumulated is
\* what is returned; with the stop on count >= total and the stop on the page
\* cap the loop terminates whenever the answers carry the total: it is never
\* stuck, it makes at most max(1, total) requests, and at most max_pages
\* requests under a page cap.
C7_StopsOnEmptyPageAndTerminates ==
    /\ \A i \in DOMAIN pg_pages : pg_pages[i] = <<>> => i = Len(pg_pages)
    /\ (pg_pages # <<>> /\ pg_pages[Len(pg_pages)] = <<>>) =>
            pg_pc = "done" /\ (srv_has_total => pg_outcome = "return")
    /\ all_items = Flatten(pg_pages)
    /\ srv_has_total => Len(pg_requests) <= Max(1, srv_total)
    /\ max_pages > 0 => Len(pg_requests) <= max_pages
    /\ pg_pc = "loop" => ENABLED FetchPage
    /\ (pg_pc = "done" /\ srv_has_total) => pg_outcome = "return"

\* C7 witness: a finished call whose last page came back empty while the
\* items accumulated over the earlier pages were fewer than the reported total.
C7_Witness ==
    /\ pg_pc = "done"
    /\ pg_outcome = "return"
    /\ srv_has_total
    /\ Len(pg_pages) >= 3
    /\ pg_pages[Len(pg_pages)] = <<>>
    /\ all_items # <<>>
    /\ Len(all_items) < total_items
    /\ max_pages = 0

\* C9: a second call with the same endpoint, the same params object and the
\* same page size against the same server issues the same page requests (same
\* p and ps) and ends the same way with the same ordered list as the first.
C9_PaginatorIdempotent ==
    (pg_call = 2 /\ pg_pc = "done") =>
        /\ pg_requests = pg_first.requests
        /\ all_items = pg_first.result
        /\ pg_outcome = pg_first.outcome

\* C9 witness: a finished second call of several pages, entered with the
\* params object in which the first call left its ps and its last p (> 1).
C9_Witness ==
    /\ pg_call = 2
    /\ pg_pc = "done"
    /\ Len(pg_requests) >= 2
    /\ all_items # <<>>
    /\ "p" \in DOMAIN pg_first.params
    /\ pg_first.params["p"] >= 2
    /\ pg_first.params["ps"] = page_size

\* the params dictionaries a caller hands in: none of the paging keys, a ps
\* of its own (get_project_issues passes ps: 500), or stale p and ps
ParamsChoices ==
    {EmptyDict, DictSet(EmptyDict, "ps", 500), DictSet(DictSet(EmptyDict, "ps", 500), "p", 3)}

\* -------------------------------------------------------------------------
\* fetch_all_hotspots (src/src/api/get_data.py)
\* -------------------------------------------------------------------------
NoResult == [hotspots |-> <<>>, paging |-> [pageIndex |-> 0, pageSize |-> 0, total |-> 0]]

\* lines 113-120: the dictionary returned
HotspotsResult(hotspots) ==
    [hotspots |-> hotspots,
     paging |-> [pageIndex |-> 1, pageSize |-> Len(hotspots), total |-> Len(hotspots)]]

\* line 103: if current_total >= total: break
HotspotsStopTest(current_total, total) == current_total >= total

\* lines 85-87: fetch_all_hotspots(base_url, token, project_key) is entered
FetchAllHotspotsCall ==
    /\ hs_pc = "idle"
    /\ all_hotspots' = <<>>
    /\ hs_page' = 1
    /\ hs_requests' = <<>>
    /\ hs_pages' = <<>>
    /\ hs_result' = NoResult
    /\ hs_pc' = "loop"
    /\ UNCHANGED srvVars

\* lines 89-106: one iteration of while True whose fetch succeeds
HotspotsPage ==
    /\ hs_pc = "loop"
    /\ Len(hs_requests) < MaxHotspotRequests
    /\ LET prm == [p |-> hs_page, ps |-> HotspotsPageSize] IN
       \E served \in ServerPages(hs_page, HotspotsPageSize, Len(all_hotspots)) :
       LET page_data == ServerResponse(HotspotsEndpoint, prm, served)
           page_hotspots == DictGet(page_data, "hotspots", <<>>)
           all1 == all_hotspots \o page_hotspots
           paging == DictGet(page_data, "paging", EmptyDict)
           total == DictGet(paging, "total", 0)
       IN  /\ hs_requests' = Append(hs_requests, prm)
           /\ hs_pages' = Append(hs_pages, [ok |-> TRUE, hotspots |-> page_hotspots])
           /\ all_hotspots' = all1
           /\ IF HotspotsStopTest(Len(all1), total)
              THEN hs_pc' = "done" /\ hs_page' = hs_page /\ hs_result' = HotspotsResult(all1)
              ELSE hs_pc' = "loop" /\ hs_page' = hs_page + 1 /\ hs_result' = hs_result
    /\ UNCHANGED srvVars

HotspotsPageFailsDroppingAll ==
    /\ hs_pc = "loop"
    /\ Len(hs_requests) < MaxHotspotRequests
    /\ hs_requests' = Append(hs_requests, [p |-> hs_page, ps |-> HotspotsPageSize])
    /\ hs_pages' = Append(hs_pages, [ok |-> FALSE, hotspots |-> <<>>])
    /\ hs_pc' = "done"
    /\ hs_result' = HotspotsResult(<<>>)
    /\ UNCHANGED <<all_hotspots, hs_page, srvVars>>
\* lines 92-93, 108-110: the fetch of the page raises (a network error, or
\* raise_for_status in get_json): the except clause prints and breaks
HotspotsPageFails ==
    /\ hs_pc = "loop"
    /\ Len(hs_requests) < MaxHotspotRequests
    /\ hs_requests' = Append(hs_requests, [p |-> hs_page, ps |-> HotspotsPageSize])
    /\ hs_pages' = Append(hs_pages, [ok |-> FALSE, hotspots |-> <<>>])
    /\ hs_pc' = "done"
    /\ hs_result' = HotspotsResult(all_hotspots)
    /\ UNCHANGED <<all_hotspots, hs_page, srvVars>>

\* ------------------------------------------- claims about fetch_all_hotspots
\* C8 (as claimed): hotspot collection terminates for every server behaviour:
\* no request follows a page answered with zero hotspots, also when the total
\* the server reports is larger than the number of hotspots accumulated.
C8_HotspotsStopOnEmptyPage ==
    \A i \in DOMAIN hs_pages :
        (hs_pages[i].ok /\ hs_pages[i].hotspots = <<>>) => i = Len(hs_pages)

\* -------------------------------------------------------------------------
\* detect_sonarqube_mode (src/src/report/utils.py and src/src/report/pdfgen.py)
\* -------------------------------------------------------------------------
\* str.upper() on the severity strings that occur
Upper(str) ==
    CASE str = "high" -> "HIGH"
      [] str = "Low" -> "LOW"
      [] str = "medium" -> "MEDIUM"
      [] str = "major" -> "MAJOR"
      [] str = "bug" -> "BUG"
      [] OTHER -> str

\* SonarQubeIssue: the fields the classifier reads
Issue(severity, impacts) == [severity |-> severity, impacts |-> impacts]
LegacySeverities == {"MAJOR", "high", ""}
\* an impact of the server's JSON: softwareQuality, and severity if it is set
ImpactChoices ==
    { [k \in {"softwareQuality"} |-> "SECURITY"],
      [k \in {"softwareQuality", "severity"} |-> IF k = "severity" THEN "Low" ELSE "SECURITY"],
      [k \in {"softwareQuality", "severity"} |-> IF k = "severity" THEN "BLOCKER" ELSE "MAINTAINABILITY"] }

\* sequences over S of length at most n
SeqsUpTo(S, n) == UNION {[1..k -> S] : k \in 0..n}
ImpactLists == SeqsUpTo(ImpactChoices, MaxImpacts)
Issues == {Issue(sev, imp) : sev \in LegacySeverities, imp \in ImpactLists}

mqr_severities == {"HIGH", "MEDIUM", "LOW"}
standard_severities == {"BLOCKER", "CRITICAL", "MAJOR", "MINOR", "INFO"}

\* ---- report/utils.py
\* has_impacts = any(issue.impacts for issue in issues)
UtilsHasImpacts(issues) == \E i \in DOMAIN issues : issues[i].impacts # <<>>

\* the inner loop: for impact in issue.impacts: if 'severity' in impact: add
RECURSIVE UtilsAddImpacts(_, _)
UtilsAddImpacts(severities, impacts) ==
    IF impacts = <<>> THEN severities
    ELSE LET impact == Head(impacts) IN
         UtilsAddImpacts(
            IF "severity" \in DOMAIN impact
            THEN severities \cup {Upper(impact["severity"])}
            ELSE severities,
            Tail(impacts))

\* the outer loop: for issue in issues: severities.add(issue.severity.upper())
RECURSIVE UtilsSeverities(_, _)
UtilsSeverities(severities, issues) ==
    IF issues = <<>> THEN severities
    ELSE LET issue == Head(issues)
             with_legacy == severities \cup {Upper(issue.severity)}
         IN  UtilsSeverities(
                IF issue.impacts # <<>>
                THEN UtilsAddImpacts(with_legacy, issue.impacts)
                ELSE with_legacy,
                Tail(issues))

DetectModeIgnoringImpacts(issues) ==
    IF mqr_severities \cap UtilsSeverities({}, issues) # {} THEN "MQR" ELSE "STANDARD"
\* detect_sonarqube_mode(issues) of report/utils.py
DetectModeUtils(issues) ==
    LET has_impacts == UtilsHasImpacts(issues)
        severities == UtilsSeverities({}, issues)
    IN  IF has_impacts /\ mqr_severities \cap severities # {} THEN "MQR"
        ELSE IF standard_severities \cap severities # {} THEN "STANDARD"
        ELSE "STANDARD"

\* ---- report/pdfgen.py
PdfgenHasImpacts(issues) == \E i \in DOMAIN issues : issues[i].impacts # <<>>

RECURSIVE PdfgenAddImpacts(_, _)
PdfgenAddImpacts(severities, impacts) ==
    IF impacts = <<>> THEN severities
    ELSE LET impact == Head(impacts) IN
         PdfgenAddImpacts(
            IF "severity" \in DOMAIN impact
            THEN severities \cup {Upper(impact["severity"])}
            ELSE severities,
            Tail(impacts))

RECURSIVE PdfgenSeverities(_, _)
PdfgenSeverities(severities, issues) ==
    IF issues = <<>> THEN severities
    ELSE LET issue == Head(issues)
             with_legacy == severities \cup {Upper(issue.severity)}
         IN  PdfgenSeverities(
                IF issue.impacts # <<>>
                THEN PdfgenAddImpacts(with_legacy, issue.impacts)
                ELSE with_legacy,
                Tail(issues))

\* detect_sonarqube_mode(issues) of report/pdfgen.py
DetectModePdfgen(issues) ==
    LET has_impacts == PdfgenHasImpacts(issues)
        severities == PdfgenSeverities({}, issues)
    IN  IF has_impacts /\ mqr_severities \cap severities # {} THEN "MQR"
        ELSE IF standard_severities \cap severities # {} THEN "STANDARD"
        ELSE "STANDARD"

\* a call of report/utils.py's detect_sonarqube_mode on the finding list
CallDetectModeUtils ==
    /\ Len(md_utils) < MaxModeCalls
    /\ md_utils' = Append(md_utils, DetectModeUtils(md_issues))
    /\ UNCHANGED <<md_issues, md_pdfgen>>

\* a call of report/pdfgen.py's detect_sonarqube_mode on the finding list
CallDetectModePdfgen ==
    /\ Len(md_pdfgen) < MaxModeCalls
    /\ md_pdfgen' = Append(md_pdfgen, DetectModePdfgen(md_issues))
    /\ UNCHANGED <<md_issues, md_utils>>

\* ------------------------------------ claims about detect_sonarqube_mode
\* the set S of the claim: the upper-cased legacy severities of all findings
\* plus all severities inside their impact lists
ObservedSeverities(issues) ==
    {Upper(issues[i].severity) : i \in DOMAIN issues} \cup
    UNION { {Upper(issues[i].impacts[j]["severity"]) :
                j \in {x \in DOMAIN issues[i].impacts : "severity" \in DOMAIN issues[i].impacts[x]}} :
            i \in DOMAIN issues }
ExpectedMode(issues) ==
    IF /\ \E i \in DOMAIN issues : Len(issues[i].impacts) > 0
       /\ ObservedSeverities(issues) \cap {"HIGH", "MEDIUM", "LOW"} # {}
    THEN "MQR"
    ELSE "STANDARD"

\* C10: every call of either copy of detect_sonarqube_mode returns MQR if and
\* only if some finding has a non-empty impact list and the set S of observed
\* severities meets {HIGH, MEDIUM, LOW}, and STANDARD otherwise; so repeated
\* calls on one list agree, and the two copies agree on every list.
C10_ModeClassifier ==
    /\ \A i \in DOMAIN md_utils : md_utils[i] = ExpectedMode(md_issues)
    /\ \A i \in DOMAIN md_pdfgen : md_pdfgen[i] = ExpectedMode(md_issues)

\* C10 witness: both copies were called twice on a list in which one finding
\* has an impact list without an MQR severity and another, without impacts,
\* has the legacy severity "high": MQR.
C10_Witness ==
    /\ Len(md_utils) = 2
    /\ Len(md_pdfgen) = 2
    /\ md_utils[2] = "MQR"
    /\ md_pdfgen[2] = "MQR"
    /\ Len(md_issues) = 2
    /\ md_issues[1].impacts # <<>>
    /\ \A j \in DOMAIN md_issues[1].impacts : "severity" \notin DOMAIN md_issues[1].impacts[j]
    /\ md_issues[1].severity = "MAJOR"
    /\ md_issues[2].impacts = <<>>
    /\ md_issues[2].severity = "high"

\* -------------------------------------------------------------------------
\* get_severity_order (src/src/report/utils.py and src/src/report/pdfgen.py)
\* -------------------------------------------------------------------------
Modes == {"STANDARD", "MQR"}
\* the severity strings the rank is asked for: both vocabularies, two of
\* them in lower case, and the empty string of a finding without severity
SeverityStrings ==
    {"BLOCKER", "CRITICAL", "MAJOR", "MINOR", "INFO", "HIGH", "MEDIUM", "LOW",
     "high", "major", ""}

\* get_severity_order(severity, mode) of report/utils.py
GetSeverityOrderUtils(severity, mode) ==
    LET s == Upper(severity) IN
    IF mode = "MQR"
    THEN CASE s = "BLOCKER" -> 1
           [] s = "HIGH" -> 2
           [] s = "MEDIUM" -> 3
           [] s = "LOW" -> 4
           [] s = "INFO" -> 5
           [] OTHER -> 99
    ELSE CASE s = "BLOCKER" -> 1
           [] s = "CRITICAL" -> 2
           [] s = "MAJOR" -> 3
           [] s = "MINOR" -> 4
           [] s = "INFO" -> 5
           [] OTHER -> 99

\* get_severity_order(severity, mode) of report/pdfgen.py
GetSeverityOrderPdfgen(severity, mode) ==
    LET s == Upper(severity) IN
    IF mode = "MQR"
    THEN CASE s = "HIGH" -> 1
           [] s = "MEDIUM" -> 2
           [] s = "LOW" -> 3
           [] OTHER -> 99
    ELSE CASE s = "BLOCKER" -> 1
           [] s = "CRITICAL" -> 2
           [] s = "MAJOR" -> 3
           [] s = "MINOR" -> 4
           [] s = "INFO" -> 5
           [] OTHER -> 99

\* no call of get_severity_order yet
NoOrderCall == [severity |-> "", mode |-> "", rank |-> 0]

\* a call of report/utils.py's get_severity_order
CallGetSeverityOrderUtils ==
    /\ \E s \in SeverityStrings, m \in Modes :
         so_utils' = [severity |-> s, mode |-> m, rank |-> GetSeverityOrderUtils(s, m)]
    /\ UNCHANGED <<so_pdfgen, cl_issues, cl_mode, cl_sections, cl_pdf_mode, cl_pdf_sections>>

\* a call of report/pdfgen.py's get_severity_order
CallGetSeverityOrderPdfgen ==
    /\ \E s \in SeverityStrings, m \in Modes :
         so_pdfgen' = [severity |-> s, mode |-> m, rank |-> GetSeverityOrderPdfgen(s, m)]
    /\ UNCHANGED <<so_utils, cl_issues, cl_mode, cl_sections, cl_pdf_mode, cl_pdf_sections>>

\* ------------------------------------------ claims about get_severity_order
\* the canonical tables of the claim, on an upper-cased severity
CanonicalRank(s, mode) ==
    IF mode = "MQR"
    THEN CASE s = "HIGH" -> 1
           [] s = "MEDIUM" -> 2
           [] s = "LOW" -> 3
           [] OTHER -> 99
    ELSE CASE s = "BLOCKER" -> 1
           [] s = "CRITICAL" -> 2
           [] s = "MAJOR" -> 3
           [] s = "MINOR" -> 4
           [] s = "INFO" -> 5
           [] OTHER -> 99

\* C11 (as claimed): every call of get_severity_order, of either definition,
\* returns the rank of the canonical table of its mode (STANDARD: BLOCKER=1,
\* CRITICAL=2, MAJOR=3, MINOR=4, INFO=5; MQR: HIGH=1, MEDIUM=2, LOW=3;
\* anything else 99; case-insensitive), and the two definitions return the
\* same rank when called with the same severity and mode.
C11_CanonicalSeverityRanking ==
    /\ so_utils # NoOrderCall =>
         so_utils.rank = CanonicalRank(Upper(so_utils.severity), so_utils.mode)
    /\ so_pdfgen # NoOrderCall =>
         so_pdfgen.rank = CanonicalRank(Upper(so_pdfgen.severity), so_pdfgen.mode)
    /\ (so_utils # NoOrderCall /\ so_pdfgen # NoOrderCall
        /\ so_utils.severity = so_pdfgen.severity /\ so_utils.mode = so_pdfgen.mode) =>
         so_utils.rank = so_pdfgen.rank

\* -------------------------------------------------------------------------
\* the category sections: get_issues_by_impact_category and the sort key of
\* create_issue_table (src/src/report/issues.py, src/src/report/pdfgen.py)
\* -------------------------------------------------------------------------
Categories == {"SECURITY", "RELIABILITY", "MAINTAINABILITY"}

\* str.lower() on the tags that occur
Lower(str) ==
    CASE str = "CWE" -> "cwe"
      [] str \in {"TRUE", "True"} -> "true"
      [] str = "FALSE" -> "false"
      [] OTHER -> str

\* an impact of the server's JSON
Impact(quality, severity) ==
    [k \in {"softwareQuality", "severity"} |-> IF k = "severity" THEN severity ELSE quality]
\* the impacts that occur: two known qualities with a severity, one known
\* quality with an empty severity, one quality that is no category
CategoryImpacts ==
    { Impact("SECURITY", "HIGH"), Impact("RELIABILITY", "LOW"),
      Impact("MAINTAINABILITY", ""), Impact("PORTABILITY", "MEDIUM") }

\* SonarQubeIssue: the fields the sections read
Finding(type, severity, tags, impacts) ==
    [type |-> type, severity |-> severity, tags |-> tags, impacts |-> impacts]
Findings ==
    { Finding(t, s, tags, imp) :
        t \in {"BUG", "bug", "VULNERABILITY", "CODE_SMELL", "SECURITY_HOTSPOT", ""},
        s \in {"CRITICAL", ""},
        tags \in {<<>>, <<"CWE">>, <<"performance">>, <<"performance", "owasp">>},
        imp \in SeqsUpTo(CategoryImpacts, MaxImpactsPerFinding) }

\* ---- report/issues.py
\* lines 21-24 and 28-31: for impact in issue.impacts: if the upper-cased
\* softwareQuality is the upper-cased category: append, break
RECURSIVE ImpactsNameCategory(_, _)
ImpactsNameCategory(impacts, category) ==
    IF impacts = <<>> THEN FALSE
    ELSE IF Upper(DictGet(Head(impacts), "softwareQuality", "")) = Upper(category) THEN TRUE
    ELSE ImpactsNameCategory(Tail(impacts), category)

\* lines 32-44: the legacy categorization of an issue without impacts
LegacySelects(issue, category) ==
    IF Upper(category) = "SECURITY"
    THEN \/ Upper(issue.type) = "VULNERABILITY"
         \/ Upper(issue.type) = "SECURITY_HOTSPOT"
         \/ \E i \in DOMAIN issue.tags : Lower(issue.tags[i]) \in {"security", "cwe", "owasp"}
    ELSE IF Upper(category) = "RELIABILITY" THEN Upper(issue.type) = "BUG"
    ELSE IF Upper(category) = "MAINTAINABILITY" THEN Upper(issue.type) = "CODE_SMELL"
    ELSE FALSE

\* lines 17-44: the body of the loop, whether it appends the issue
IssueSelected(issue, category, mode) ==
    IF mode = "MQR" /\ issue.impacts # <<>> THEN ImpactsNameCategory(issue.impacts, category)
    ELSE IF issue.impacts # <<>> THEN ImpactsNameCategory(issue.impacts, category)
    ELSE LegacySelects(issue, category)

\* get_issues_by_impact_category(issues, category, mode) of report/issues.py
GetIssuesByImpactCategory(issues, category, mode) ==
    SelectSeq(issues, LAMBDA issue : IssueSelected(issue, category, mode))

\* lines 66-70: the severity of the first impact that has a non-empty one
RECURSIVE FirstImpactSeverity(_)
FirstImpactSeverity(impacts) ==
    IF impacts = <<>> THEN ""
    ELSE LET impact_severity == DictGet(Head(impacts), "severity", "") IN
         IF impact_severity # "" THEN impact_severity
         ELSE FirstImpactSeverity(Tail(impacts))

\* create_issue_table.get_issue_severity_for_sorting(issue), the sort key;
\* get_severity_order is the one report/issues.py imports from report/utils.py
GetIssueSeverityForSorting(issue, mode) ==
    IF mode = "MQR" /\ issue.impacts # <<>>
    THEN LET impact_severity == FirstImpactSeverity(issue.impacts) IN
         IF impact_severity # "" THEN GetSeverityOrderUtils(impact_severity, mode)
         ELSE 99
    ELSE GetSeverityOrderUtils(issue.severity, mode)

\* generate_security_issues_page, generate_reliability_issues_page and
\* generate_maintainability_issues_page (lines 312-327): the findings of the
\* category are selected and handed to create_issue_section, whose table is
\* sorted by the keys; the order of the rows is the renderer's and is not kept
GenerateIssuesPage ==
    \E category \in Categories :
        /\ category \notin DOMAIN cl_sections
        /\ LET issues == GetIssuesByImpactCategory(cl_issues, category, cl_mode) IN
           cl_sections' = DictSet(cl_sections, category,
                [issues |-> issues,
                 keys |-> [i \in DOMAIN issues |-> GetIssueSeverityForSorting(issues[i], cl_mode)]])
        /\ UNCHANGED <<so_utils, so_pdfgen, cl_issues, cl_mode, cl_pdf_mode, cl_pdf_sections>>

\* ---- report/pdfgen.py
\* get_issues_by_impact_category(issues, category, mode) of report/pdfgen.py
\* (lines 191-224), the body of its loop
PdfgenIssueSelected(issue, category, mode) ==
    IF mode = "MQR" /\ issue.impacts # <<>>
    THEN \E i \in DOMAIN issue.impacts :
            Upper(DictGet(issue.impacts[i], "softwareQuality", "")) = Upper(category)
    ELSE IF issue.impacts # <<>>
    THEN \E i \in DOMAIN issue.impacts :
            Upper(DictGet(issue.impacts[i], "softwareQuality", "")) = Upper(category)
    ELSE IF Upper(category) = "SECURITY"
    THEN \/ Upper(issue.type) = "VULNERABILITY"
         \/ Upper(issue.type) = "SECURITY_HOTSPOT"
         \/ \E i \in DOMAIN issue.tags : Lower(issue.tags[i]) \in {"security", "cwe", "owasp"}
    ELSE IF Upper(category) = "RELIABILITY" THEN Upper(issue.type) = "BUG"
    ELSE IF Upper(category) = "MAINTAINABILITY" THEN Upper(issue.type) = "CODE_SMELL"
    ELSE FALSE

PdfgenGetIssuesByImpactCategory(issues, category, mode) ==
    SelectSeq(issues, LAMBDA issue : PdfgenIssueSelected(issue, category, mode))

\* generate_pdf, lines 486-498: the mode is detected from report.issues and
\* the three sections are built with it
GeneratePdfIssueSections ==
    /\ cl_pdf_mode = ""
    /\ LET sonarqube_mode == DetectModePdfgen(cl_issues) IN
       /\ cl_pdf_mode' = sonarqube_mode
       /\ cl_pdf_sections' =
            [category \in Categories |->
                PdfgenGetIssuesByImpactCategory(cl_issues, category, sonarqube_mode)]
    /\ UNCHANGED <<so_utils, so_pdfgen, cl_issues, cl_mode, cl_sections>>

\* --------------------------------------- claims about the category sections
\* the finding is among the findings of a section
SelectedIn(section_issues, issue) ==
    \E j \in DOMAIN section_issues : section_issues[j] = issue

\* C12 (as claimed): under MQR, once the SECURITY section is built, every
\* finding whose impact list holds the pair (SECURITY, HIGH), at any position
\* and beside any other impacts, is in the section and its sort key is 1,
\* whatever its legacy severity.
C12_SecurityHighSelectedAndRankedFirst ==
    (cl_mode = "MQR" /\ "SECURITY" \in DOMAIN cl_sections) =>
        \A i \in DOMAIN cl_issues :
            (\E k \in DOMAIN cl_issues[i].impacts :
                cl_issues[i].impacts[k] = Impact("SECURITY", "HIGH")) =>
            \E j \in DOMAIN cl_sections["SECURITY"].issues :
                /\ cl_sections["SECURITY"].issues[j] = cl_issues[i]
                /\ cl_sections["SECURITY"].keys[j] = 1

\* the legacy type table of the claim
LegacyCategory(type) ==
    CASE type = "VULNERABILITY" -> "SECURITY"
      [] type = "BUG" -> "RELIABILITY"
      [] type = "CODE_SMELL" -> "MAINTAINABILITY"

\* C13 (as claimed): under STANDARD mode a finding with an empty impact list
\* and any tag list is selected for the category of the legacy type table
\* (VULNERABILITY: SECURITY, BUG: RELIABILITY, CODE_SMELL: MAINTAINABILITY)
\* and for no other category, by the passes of report/issues.py and by those
\* of report/pdfgen.py.
C13_LegacyTypeTableExact ==
    \A i \in DOMAIN cl_issues :
        (cl_issues[i].impacts = <<>> /\ cl_issues[i].type \in {"VULNERABILITY", "BUG", "CODE_SMELL"}) =>
        /\ cl_mode = "STANDARD" =>
             \A c \in DOMAIN cl_sections :
                SelectedIn(cl_sections[c].issues, cl_issues[i]) <=> c = LegacyCategory(cl_issues[i].type)
        /\ cl_pdf_mode = "STANDARD" =>
             \A c \in Categories :
                SelectedIn(cl_pdf_sections[c], cl_issues[i]) <=> c = LegacyCategory(cl_issues[i].type)

\* C14 (as claimed): for every mode, no finding is selected by more than one
\* of the three category passes that build the sections, neither by those of
\* report/issues.py nor by those of report/pdfgen.py.
C14_AtMostOneCategory ==
    \A i \in DOMAIN cl_issues :
        /\ Cardinality({c \in DOMAIN cl_sections :
                            SelectedIn(cl_sections[c].issues, cl_issues[i])}) <= 1
        /\ cl_pdf_mode # "" =>
             Cardinality({c \in Categories :
                            SelectedIn(cl_pdf_sections[c], cl_issues[i])}) <= 1

\* C15 (as claimed): once the three sections are built, every finding has a
\* rank (a value of the table or the default 99) and is selected by at least
\* one of the three category passes: a finding that matches no category by
\* impact or by type is given a default category.
C15_RankAndCategoryNeverMissing ==
    \A i \in DOMAIN cl_issues :
        /\ DOMAIN cl_sections = Categories =>
             /\ GetIssueSeverityForSorting(cl_issues[i], cl_mode) \in {1, 2, 3, 4, 5, 99}
             /\ \E c \in Categories : SelectedIn(cl_sections[c].issues, cl_issues[i])
        /\ cl_pdf_mode # "" =>
             \E c \in Categories : SelectedIn(cl_pdf_sections[c], cl_issues[i])

\* -------------------------------------------------------------------------
\* fetch and get_rules (src/src/api/get_data.py)
\* -------------------------------------------------------------------------
\* the exceptions get_json raises: requests.get fails, or raise_for_status
\* rejects the status
FetchExceptions == {"ConnectionError", "HTTPError"}

\* what a call of fetch(name, url, token, verbose) does: it returns the JSON
\* body, one of bodies, or raises one of FetchExceptions
FetchAnswers(bodies) ==
    {[ok |-> TRUE, body |-> b, exc |-> ""] : b \in bodies} \cup
    {[ok |-> FALSE, body |-> EmptyDict, exc |-> e] : e \in FetchExceptions}

\* the rule keys the server knows
RuleKeyChoices == {"r1", "r2", "r3"}
\* SonarQubeRule.from_dict(response['rule']): the class is not part of
\* data/models.py; a Rule is the identifier and the display name of the record
RuleFromDict(data) == [key |-> DictGet(data, "key", ""), name |-> DictGet(data, "name", "")]
\* the bodies /api/rules/show?key=rule_key may carry: the rule, or no rule
RuleBodies(rule_key) ==
    { [k \in {"rule"} |-> [key |-> rule_key, name |-> "Rule name"]], EmptyDict }

\* lines 20-25: get_rules(base_url, token, rule_keys, verbose) is entered
GetRulesCall ==
    /\ rl_pc = "call"
    /\ rl_rules' = EmptyDict
    /\ rl_idx' = 1
    /\ rl_requests' = <<>>
    /\ IF rule_keys = <<>>
       THEN rl_pc' = "done" /\ rl_result' = EmptyDict
       ELSE rl_pc' = "loop" /\ rl_result' = rl_result
    /\ UNCHANGED rule_keys

\* lines 27-43: one iteration of the for loop; after the last one the rules
\* are returned (lines 38-39); an exception of fetch leaves the loop for the
\* except clause, which returns an empty dictionary (lines 41-43)
FetchRule ==
    /\ rl_pc = "loop"
    /\ LET rule_key == rule_keys[rl_idx] IN
       \E response \in FetchAnswers(RuleBodies(rule_key)) :
       /\ rl_requests' = Append(rl_requests,
            [key |-> rule_key, ok |-> response.ok, rule |-> response.ok /\ "rule" \in DOMAIN response.body])
       /\ IF ~response.ok
          THEN /\ rl_pc' = "done"
               /\ rl_result' = EmptyDict
               /\ UNCHANGED <<rl_rules, rl_idx>>
          ELSE LET rules1 == IF "rule" \in DOMAIN response.body
                             THEN DictSet(rl_rules, rule_key, RuleFromDict(response.body["rule"]))
                             ELSE rl_rules
               IN  /\ rl_rules' = rules1
                   /\ rl_idx' = rl_idx + 1
                   /\ IF rl_idx = Len(rule_keys)
                      THEN rl_pc' = "done" /\ rl_result' = rules1
                      ELSE rl_pc' = "loop" /\ rl_result' = rl_result
    /\ UNCHANGED rule_keys

\* ------------------------------------------------- claims about get_rules
\* C18 (as claimed): when get_rules has returned, every key of rule_keys has
\* been requested (a failing key does not end the collection of the others),
\* and the mapping returned holds exactly the keys whose request was answered
\* with a rule body: the rules fetched before a failing key are kept.
C18_FailedRuleOmittedOthersKept ==
    rl_pc = "done" =>
        /\ {rl_requests[i].key : i \in DOMAIN rl_requests} = {rule_keys[i] : i \in DOMAIN rule_keys}
        /\ DOMAIN rl_result = {rl_requests[i].key : i \in {j \in DOMAIN rl_requests : rl_requests[j].rule}}

\* -------------------------------------------------------------------------
\* get_code_snippet and get_report_data (src/src/api/get_data.py)
\* -------------------------------------------------------------------------
\* Optional[str]: None, or a string
Nothing == <<>>
Some(v) == <<v>>

\* a request made through fetch: the endpoint asked, the key asked for, for
\* a sources request the range of lines and the number of lines answered,
\* and whether fetch returned
Request(name, key, from, to, items, ok) ==
    [name |-> name, key |-> key, from |-> from, to |-> to, items |-> items, ok |-> ok]

\* how get_report_data ended
NotReturned == [kind |-> "pending", exc |-> "", cause |-> "", at |-> "", report |-> EmptyDict]
Raised(exc, cause, at) == [kind |-> "raise", exc |-> exc, cause |-> cause, at |-> at, report |-> EmptyDict]
Returned(report) == [kind |-> "return", exc |-> "", cause |-> "", at |-> "return", report |-> report]

\* ---- the bodies the server answers with
ProjectKey == "demo"
ComponentBodies == { [k \in {"component"} |-> [key |-> ProjectKey, name |-> "Demo"]] }
MeasuresBodies ==
    { [k \in {"component"} |-> [measures |-> <<[metric |-> "coverage", value |-> "80.0"]>>]] }
SettingKey == "sonar.multi-quality-mode.enabled"
\* the values the setting may carry
SettingValues == {"true", "TRUE", "True", "false", "FALSE", "yes", "1", ""}
\* the bodies of /api/settings/values: the key is absent, present without
\* a value, or present with a value
SettingsBodies ==
    { EmptyDict, [k \in {SettingKey} |-> EmptyDict] } \cup
    { [k \in {SettingKey} |-> [value |-> v]] : v \in SettingValues }

\* an issue of /api/issues/search: the line is absent when line is None
FindingDoc(key, rule, line) ==
    [k \in (IF line = None THEN {"key", "component", "rule"}
            ELSE {"key", "component", "rule", "line"}) |->
        CASE k = "key" -> key
          [] k = "component" -> "demo:src/app.py"
          [] k = "rule" -> rule
          [] k = "line" -> line]
\* the rule and line an issue may carry
IssueChoices ==
    { [rule |-> "r1", line |-> 5], [rule |-> "r1", line |-> None],
      [rule |-> "r2", line |-> 2], [rule |-> "", line |-> None] }
\* the decimal numeral of a natural number
RECURSIVE Decimal(_)
Decimal(n) == IF n < 10 THEN StrOf(n) ELSE Decimal(n \div 10) \o StrOf(n % 10)
IssueKey(i) == "ISSUE-" \o Decimal(i)
\* the bodies of /api/issues/search?componentKeys=...&ps=500 of a server
\* that holds n issues: the total n and the first page, at most
\* IssuesPageSize issues in the server's order. Up to MaxIssues issues carry
\* any of IssueChoices; the issues of a larger project carry rule r1 and no
\* line.
IssuesBodies(n) ==
    IF n <= MaxIssues
    THEN { [k \in {"issues", "total"} |->
                IF k = "total" THEN n
                ELSE [i \in 1..n |-> FindingDoc(IssueKey(i), c[i].rule, c[i].line)]] :
           c \in [1..n -> IssueChoices] }
    ELSE { [k \in {"issues", "total"} |->
                IF k = "total" THEN n
                ELSE [i \in 1..Min(n, IssuesPageSize) |-> FindingDoc(IssueKey(i), "r1", None)]] }
\* the k-th hotspot of the server: odd ones carry rule r1 and line 5, even
\* ones rule r3 and no line
HotspotDoc(k) ==
    IF k % 2 = 1 THEN FindingDoc("HOTSPOT-" \o StrOf(k), "r1", 5)
    ELSE FindingDoc("HOTSPOT-" \o StrOf(k), "r3", None)
\* the bodies of /api/sources/show: no lines, or the lines from..to
SourcesBodies(from, to) ==
    { [k \in {"sources"} |-> <<>>],
      [k \in {"sources"} |-> [i \in 1..(to - from + 1) |-> <<from + i - 1, "x = 1">>]] }

\* ---- data/models.py
\* SonarQubeProject.from_dict
ProjectFromDict(data) ==
    LET component == DictGet(data, "component", EmptyDict) IN
    [key |-> DictGet(component, "key", ""), name |-> DictGet(component, "name", "")]
\* SonarQubeIssue.from_dict: the fields get_report_data reads
IssueFromDict(data) ==
    [key |-> DictGet(data, "key", ""), component |-> DictGet(data, "component", ""),
     rule |-> DictGet(data, "rule", ""), line |-> DictGet(data, "line", None),
     code_snippet |-> Nothing]
\* SonarQubeHotspot.from_dict: the fields get_report_data reads; the class
\* has a field rule and no field rule_key
HotspotFromDict(data) ==
    [key |-> DictGet(data, "key", ""), component |-> DictGet(data, "component", ""),
     rule |-> DictGet(data, "rule", ""), line |-> DictGet(data, "line", None),
     code_snippet |-> Nothing]
\* lines 185-188: the dictionary of SonarQubeMeasure.from_dict(m) by metric
MeasuresOf(data) ==
    LET ms == DictGet(DictGet(data, "component", EmptyDict), "measures", <<>>) IN
    [metric \in {ms[i].metric : i \in DOMAIN ms} |->
        LET i == CHOOSE j \in DOMAIN ms :
                    ms[j].metric = metric /\ \A l \in DOMAIN ms : ms[l].metric = metric => l <= j
        IN  [metric |-> ms[i].metric, value |-> ms[i].value]]
\* ReportData(...): the dataclass of data/models.py
ReportData(project, issues, measures, hotspots, quality_gate, quality_profiles, mode_setting) ==
    [project |-> project, issues |-> issues, measures |-> measures, hotspots |-> hotspots,
     quality_gate |-> quality_gate, quality_profiles |-> quality_profiles,
     mode_setting |-> mode_setting]
\* rules=rules: the rule-key -> Rule mapping of the snapshot; data/models.py
\* declares neither this field nor SonarQubeRule
WithRules(report, rules) ==
    [k \in DOMAIN report \cup {"rules"} |-> IF k = "rules" THEN rules ELSE report[k]]

\* ---- get_code_snippet
FromLineUnclamped(line) == line - 3
\* lines 49-50, context_lines = 3
FromLine(line) == Max(1, line - 3)
ToLine(line) == line + 3
\* lines 68-76: marker, the line number as {line_num:3d}, the code; joined
\* with newlines
RECURSIVE SnippetLines(_, _)
SnippetLines(sources, line) ==
    LET source == Head(sources)
        line_num == source[1]
        code == source[2]
        marker == IF line_num = line THEN ">>> " ELSE "    "
        text == marker \o "  " \o StrOf(line_num) \o ": " \o code
    IN  IF Tail(sources) = <<>> THEN text
        ELSE text \o "\n" \o SnippetLines(Tail(sources), line)
\* get_code_snippet(base_url, token, component, line, 3), given what its
\* fetch does
GetCodeSnippet(line, response) ==
    IF ~response.ok THEN ""
    ELSE LET sources == DictGet(response.body, "sources", <<>>) IN
         IF sources = <<>> THEN ""
         ELSE SnippetLines(sources, line)
\* lines 174-179 and 206-212: the snippet is fetched and, when
\* code_snippet.strip() is empty, replaced by the fallback text
SnippetFor(finding, response, fallback) ==
    LET code_snippet == GetCodeSnippet(finding.line, response) IN
    [finding EXCEPT !.code_snippet = Some(IF code_snippet = "" THEN fallback ELSE code_snippet)]
SourcesRequest(finding, response) ==
    Request("sources", finding.component, FromLine(finding.line), ToLine(finding.line),
            Len(DictGet(response.body, "sources", <<>>)), response.ok)

\* ---- get_report_data
\* lines 123-144: get_report_data(base_url, token, project_key, verbose) is
\* entered. log is not part of report/utils.py; it prints when verbose and
\* changes nothing, so verbose is left out.
GetReportDataCall ==
    /\ gd_pc = "idle"
    /\ gd_pc' = "component"
    /\ UNCHANGED <<gd_requests, component_data, issues_data, measures_data, settings_data,
                   hotspots_data, gd_project, gd_issues, gd_measures, gd_hotspots, gd_outcome, rlVars>>

\* line 146: the exception of a failing fetch leaves get_report_data
FetchComponent ==
    /\ gd_pc = "component"
    /\ \E response \in FetchAnswers(ComponentBodies) :
        /\ gd_requests' = Append(gd_requests, Request("component", ProjectKey, 0, 0, 0, response.ok))
        /\ IF response.ok
           THEN gd_pc' = "issues" /\ component_data' = response.body /\ gd_outcome' = gd_outcome
           ELSE /\ gd_pc' = "done"
                /\ component_data' = component_data
                /\ gd_outcome' = Raised(response.exc, "", "component")
    /\ UNCHANGED <<issues_data, measures_data, settings_data, hotspots_data,
                   gd_project, gd_issues, gd_measures, gd_hotspots, rlVars>>

\* line 148: one request with ps=500
FetchIssues ==
    /\ gd_pc = "issues"
    /\ \E response \in FetchAnswers(IssuesBodies(srv_issues)) :
        /\ gd_requests' = Append(gd_requests, Request("issues", ProjectKey, 0, 0, 0, response.ok))
        /\ IF response.ok
           THEN gd_pc' = "measures" /\ issues_data' = response.body /\ gd_outcome' = gd_outcome
           ELSE /\ gd_pc' = "done"
                /\ issues_data' = issues_data
                /\ gd_outcome' = Raised(response.exc, "", "issues")
    /\ UNCHANGED <<component_data, measures_data, settings_data, hotspots_data,
                   gd_project, gd_issues, gd_measures, gd_hotspots, rlVars>>

\* line 150
FetchMeasures ==
    /\ gd_pc = "measures"
    /\ \E response \in FetchAnswers(MeasuresBodies) :
        /\ gd_requests' = Append(gd_requests, Request("measures", ProjectKey, 0, 0, 0, response.ok))
        /\ IF response.ok
           THEN gd_pc' = "settings" /\ measures_data' = response.body /\ gd_outcome' = gd_outcome
           ELSE /\ gd_pc' = "done"
                /\ measures_data' = measures_data
                /\ gd_outcome' = Raised(response.exc, "", "measures")
    /\ UNCHANGED <<component_data, issues_data, settings_data, hotspots_data,
                   gd_project, gd_issues, gd_measures, gd_hotspots, rlVars>>

\* line 152; line 154 then calls fetch_all_hotspots
FetchSettings ==
    /\ gd_pc = "settings"
    /\ \E response \in FetchAnswers(SettingsBodies) :
        /\ gd_requests' = Append(gd_requests, Request("settings", SettingKey, 0, 0, 0, response.ok))
        /\ IF response.ok
           THEN gd_pc' = "hotspots" /\ settings_data' = response.body /\ gd_outcome' = gd_outcome
           ELSE /\ gd_pc' = "done"
                /\ settings_data' = settings_data
                /\ gd_outcome' = Raised(response.exc, "", "settings")
    /\ UNCHANGED <<component_data, issues_data, measures_data, hotspots_data,
                   gd_project, gd_issues, gd_measures, gd_hotspots, rlVars>>

StartProcessingBeforeHotspots ==
    /\ gd_pc = "hotspots"
    /\ hotspots_data' = hs_result
    /\ gd_project' = ProjectFromDict(component_data)
    /\ gd_pc' = "issue_loop"
    /\ UNCHANGED <<gd_requests, component_data, issues_data, measures_data, settings_data,
                   gd_issues, gd_measures, gd_hotspots, gd_outcome, rlVars>>
\* lines 154-162: fetch_all_hotspots has returned; the project is built
StartProcessing ==
    /\ gd_pc = "hotspots"
    /\ hs_pc = "done"
    /\ hotspots_data' = hs_result
    /\ gd_project' = ProjectFromDict(component_data)
    /\ gd_pc' = "issue_loop"
    /\ UNCHANGED <<gd_requests, component_data, issues_data, measures_data, settings_data,
                   gd_issues, gd_measures, gd_hotspots, gd_outcome, rlVars>>

\* lines 164-183: one iteration of the loop over the issues
ProcessIssue ==
    /\ gd_pc = "issue_loop"
    /\ Len(gd_issues) < Len(DictGet(issues_data, "issues", <<>>))
    /\ LET issue == IssueFromDict(DictGet(issues_data, "issues", <<>>)[Len(gd_issues) + 1]) IN
       IF issue.line # None /\ issue.line # 0
       THEN \E response \in FetchAnswers(SourcesBodies(FromLine(issue.line), ToLine(issue.line))) :
            /\ gd_requests' = Append(gd_requests, SourcesRequest(issue, response))
            /\ gd_issues' = Append(gd_issues,
                    SnippetFor(issue, response, "No code snippet available for this issue."))
       ELSE /\ gd_requests' = gd_requests
            /\ gd_issues' = Append(gd_issues, issue)
    /\ UNCHANGED <<gd_pc, component_data, issues_data, measures_data, settings_data,
                   hotspots_data, gd_project, gd_measures, gd_hotspots, gd_outcome, rlVars>>

\* lines 185-194: after the last issue the measures are built
BuildMeasures ==
    /\ gd_pc = "issue_loop"
    /\ Len(gd_issues) = Len(DictGet(issues_data, "issues", <<>>))
    /\ gd_measures' = MeasuresOf(measures_data)
    /\ gd_pc' = "hotspot_loop"
    /\ UNCHANGED <<gd_requests, component_data, issues_data, measures_data, settings_data,
                   hotspots_data, gd_project, gd_issues, gd_hotspots, gd_outcome, rlVars>>

\* lines 196-216: one iteration of the loop over the hotspots
ProcessHotspot ==
    /\ gd_pc = "hotspot_loop"
    /\ Len(gd_hotspots) < Len(DictGet(hotspots_data, "hotspots", <<>>))
    /\ LET hotspot == HotspotFromDict(
                HotspotDoc(DictGet(hotspots_data, "hotspots", <<>>)[Len(gd_hotspots) + 1])) IN
       IF hotspot.line # None /\ hotspot.line # 0
       THEN \E response \in FetchAnswers(SourcesBodies(FromLine(hotspot.line), ToLine(hotspot.line))) :
            /\ gd_requests' = Append(gd_requests, SourcesRequest(hotspot, response))
            /\ gd_hotspots' = Append(gd_hotspots,
                    SnippetFor(hotspot, response, "No code snippet available for this hotspot."))
       ELSE /\ gd_requests' = gd_requests
            /\ gd_hotspots' = Append(gd_hotspots, hotspot)
    /\ UNCHANGED <<gd_pc, component_data, issues_data, measures_data, settings_data,
                   hotspots_data, gd_project, gd_issues, gd_measures, gd_outcome, rlVars>>

\* list(rule_keys): the elements of the set in the order the set yields them
Orderings(S) ==
    {order \in [1..Cardinality(S) -> S] :
        \A i, j \in 1..Cardinality(S) : i # j => order[i] # order[j]}

\* lines 219-230: the rule keys are collected and get_rules is called; the
\* loop over the hotspots reads hotspot.rule_key, which SonarQubeHotspot does
\* not have: with a hotspot in the list the AttributeError leaves
\* get_report_data
CollectRuleKeys ==
    /\ gd_pc = "hotspot_loop"
    /\ Len(gd_hotspots) = Len(DictGet(hotspots_data, "hotspots", <<>>))
    /\ IF gd_hotspots # <<>>
       THEN /\ gd_pc' = "done"
            /\ gd_outcome' = Raised("AttributeError", "", "rule_keys")
            /\ UNCHANGED rlVars
       ELSE /\ \E order \in Orderings({gd_issues[i].rule :
                                  i \in {j \in DOMAIN gd_issues : gd_issues[j].rule # ""}}) :
                rule_keys' = order
            /\ rl_pc' = "call"
            /\ gd_pc' = "rules"
            /\ UNCHANGED <<gd_outcome, rl_idx, rl_rules, rl_requests, rl_result>>
    /\ UNCHANGED <<gd_requests, component_data, issues_data, measures_data, settings_data,
                   hotspots_data, gd_project, gd_issues, gd_measures, gd_hotspots>>

\* get_report_data, or the function it has called, is at a call of fetch
AtFetch ==
    \/ gd_pc \in {"component", "issues", "measures", "settings"}
    \/ gd_pc = "hotspots" /\ hs_pc = "loop" /\ Len(hs_requests) < MaxHotspotRequests
    \/ /\ gd_pc = "issue_loop"
       /\ Len(gd_issues) < Len(DictGet(issues_data, "issues", <<>>))
       /\ DictGet(DictGet(issues_data, "issues", <<>>)[Len(gd_issues) + 1], "line", None) \notin {None, 0}
    \/ /\ gd_pc = "hotspot_loop"
       /\ Len(gd_hotspots) < Len(DictGet(hotspots_data, "hotspots", <<>>))
       /\ DictGet(HotspotDoc(DictGet(hotspots_data, "hotspots", <<>>)[Len(gd_hotspots) + 1]),
                  "line", None) \notin {None, 0}
    \/ gd_pc = "rules" /\ rl_pc = "loop"

\* get_json, line 10: requests.get(url, auth=(token, "")) is called without
\* a timeout, so it waits for the answer without limit: when the server
\* never answers, the call never returns
FetchNeverAnswered ==
    /\ AtFetch
    /\ gd_pc' = "blocked"
    /\ UNCHANGED <<gd_requests, component_data, issues_data, measures_data, settings_data,
                   hotspots_data, gd_project, gd_issues, gd_measures, gd_hotspots, gd_outcome,
                   rlVars, hsVars, srvVars>>

ParseModeSettingCaseSensitive(data) ==
    DictGet(DictGet(data, SettingKey, EmptyDict), "value", "true") = "true"
\* line 232: settings_data.get(key, {}).get("value", "true").lower() == "true"
ParseModeSetting(data) ==
    Lower(DictGet(DictGet(data, SettingKey, EmptyDict), "value", "true")) = "true"

\* lines 232-253: get_rules has returned; the setting is parsed and the
\* report is returned
AssembleReport ==
    /\ gd_pc = "rules"
    /\ rl_pc = "done"
    /\ LET settings == ParseModeSetting(settings_data)
       IN  gd_outcome' = Returned(WithRules(
                ReportData(gd_project, gd_issues, gd_measures, gd_hotspots, EmptyDict, <<>>, settings),
                rl_result))
    /\ gd_pc' = "done"
    /\ UNCHANGED <<gd_requests, component_data, issues_data, measures_data, settings_data,
                   hotspots_data, gd_project, gd_issues, gd_measures, gd_hotspots, rlVars>>

\* --------------------------------------------- claims about get_report_data
\* the requests get_report_data and get_rules made that raised
FailedRequests(names) ==
    {i \in DOMAIN gd_requests : gd_requests[i].name \in names /\ ~gd_requests[i].ok}
\* the findings that carry a line, in the order their snippets are fetched,
\* and the sources requests made for them
HasLine(finding) == finding.line # None /\ finding.line # 0
LinedFindings == SelectSeq(gd_issues, HasLine) \o SelectSeq(gd_hotspots, HasLine)
IsSourcesRequest(request) == request.name = "sources"
SourcesRequests == SelectSeq(gd_requests, IsSourcesRequest)
\* the lines from..to of a file
SourcesWindow(from, to) == [i \in 1..(to - from + 1) |-> <<from + i - 1, "x = 1">>]
\* the rule identifiers of a list of findings, the empty one left out
RuleIds(findings) == {findings[i].rule : i \in DOMAIN findings} \ {""}

\* C16 (as claimed): a failure of an optional part (the mode setting, a code
\* snippet, a rule description) does not abort the collection: when
\* get_report_data has ended after such a request raised, it has returned a
\* report.
C16_OptionalFailuresAbsorbed ==
    (/\ gd_pc = "done"
     /\ \/ FailedRequests({"settings", "sources"}) # {}
        \/ \E i \in DOMAIN rl_requests : ~rl_requests[i].ok)
    => gd_outcome.kind = "return"

\* C17 (as claimed): when the request for the project or for the issues
\* raises, the collection fails with CollectionFailed wrapping that error,
\* and no later request is made.
C17_RequiredFailureIsCollectionFailed ==
    (gd_pc = "done" /\ FailedRequests({"component", "issues"}) # {})
    => /\ gd_outcome.kind = "raise"
       /\ gd_outcome.exc = "CollectionFailed"
       /\ gd_outcome.cause \in FetchExceptions
       /\ FailedRequests({"component", "issues"}) = {Len(gd_requests)}
       /\ hs_requests = <<>>
       /\ rl_requests = <<>>

\* C19 (as claimed): when the findings have been collected, the rule
\* descriptions requested are those of the distinct non-empty rule
\* identifiers of the issues and of the hotspots, each one requested once.
C19_RulesOfIssuesAndHotspotsRequested ==
    (gd_pc = "done" /\ gd_outcome.at \in {"rule_keys", "return"})
    => /\ {rl_requests[i].key : i \in DOMAIN rl_requests} = RuleIds(gd_issues) \cup RuleIds(gd_hotspots)
       /\ \A i, j \in DOMAIN rl_requests : i # j => rl_requests[i].key # rl_requests[j].key

\* C20 (as claimed): a finding with a line carries the formatted snippet when
\* its source lines were fetched, and otherwise one fixed placeholder text,
\* the same for every finding; a snippet that cannot be fetched never aborts
\* the collection.
C20_SnippetOrOnePlaceholder ==
    gd_pc = "done" =>
        /\ \E placeholder \in {"No code snippet available for this issue.",
                               "No code snippet available for this hotspot."} :
             \A i \in DOMAIN LinedFindings :
                LET finding == LinedFindings[i]
                    request == SourcesRequests[i]
                IN  IF request.ok /\ request.items > 0
                    THEN finding.code_snippet =
                            Some(SnippetLines(SourcesWindow(request.from, request.to), finding.line))
                    ELSE finding.code_snippet = Some(placeholder)
        /\ SourcesRequests # <<>> => gd_outcome.kind = "return"

\* C21 (as claimed): in every snapshot get_report_data returns, no finding
\* has a null code_snippet: a finding without a snippet, also one without a
\* line number, carries a placeholder string.
C21_NoNullSnippetInSnapshot ==
    gd_outcome.kind = "return" =>
        /\ \A i \in DOMAIN gd_outcome.report.issues :
                gd_outcome.report.issues[i].code_snippet # Nothing
        /\ \A i \in DOMAIN gd_outcome.report.hotspots :
                gd_outcome.report.hotspots[i].code_snippet # Nothing

\* C22: the mode_setting of the snapshot is true exactly when the settings
\* response lacks the key, or the key has no value, or the value is "true"
\* in some spelling of upper and lower case; every other value present
\* ("false", "FALSE", "yes", "1", "") gives false.
C22_ModeSettingParsedDefensively ==
    gd_outcome.kind = "return" =>
        (gd_outcome.report.mode_setting <=>
            \/ SettingKey \notin DOMAIN settings_data
            \/ "value" \notin DOMAIN settings_data[SettingKey]
            \/ settings_data[SettingKey]["value"] \in {"true", "TRUE", "True"})
\* a snapshot was returned for a settings response that spells the value TRUE
C22_Witness ==
    /\ gd_outcome.kind = "return"
    /\ SettingKey \in DOMAIN settings_data
    /\ "value" \in DOMAIN settings_data[SettingKey]
    /\ settings_data[SettingKey]["value"] = "TRUE"
    /\ gd_outcome.report.mode_setting


\* C23 (as claimed): issues are collected with full pagination: the snapshot
\* get_report_data returns holds all the issues the server reports, each
\* once and in the server's order, also when there are more of them than
\* the page size 500.
C23_AllIssuesCollected ==
    gd_outcome.kind = "return" =>
        /\ Len(gd_outcome.report.issues) = srv_issues
        /\ \A i \in DOMAIN gd_outcome.report.issues :
                gd_outcome.report.issues[i].key = IssueKey(i)

\* C24 (as claimed): no network operation blocks indefinitely: every request
\* carries the timeout, so a run of get_report_data always ends, with a
\* snapshot or with an error.
C24_RunAlwaysEnds == <>(gd_pc = "done")

\* C26 (as claimed): a single transient network error on a request of the
\* collection is retried before it can fail the run: when get_report_data
\* has failed with a connection error, the request it failed at was made
\* more than once.
C26_TransientFailureRetried ==
    (gd_pc = "done" /\ gd_outcome.kind = "raise" /\ gd_outcome.exc = "ConnectionError")
    => Cardinality({i \in DOMAIN gd_requests : gd_requests[i].name = gd_outcome.at}) >= 2

\* the records fetched: the issues of the issues answer and the hotspots
\* fetch_all_hotspots returned
IssueRecords == DictGet(issues_data, "issues", <<>>)
HotspotRecords ==
    [i \in DOMAIN DictGet(hotspots_data, "hotspots", <<>>) |->
        HotspotDoc(DictGet(hotspots_data, "hotspots", <<>>)[i])]
RecordHasLine(record) == DictGet(record, "line", None) \notin {None, 0}

\* C27: the order of the requests of one run of get_report_data: the
\* project request is the first request; a snippet request is made only
\* after the issues were fetched and the hotspot pagination has ended; a
\* rule request is made only after the snippets of all issues and of all
\* hotspots were fetched.
C27_RequestOrder ==
    /\ (gd_requests # <<>> \/ hs_requests # <<>> \/ rl_requests # <<>>)
            => (gd_requests # <<>> /\ gd_requests[1].name = "component")
    /\ SourcesRequests # <<>>
            => /\ \E i \in DOMAIN gd_requests : gd_requests[i].name = "issues" /\ gd_requests[i].ok
               /\ hs_pc = "done"
    /\ rl_requests # <<>>
            => /\ Len(gd_issues) = Len(IssueRecords)
               /\ Len(gd_hotspots) = Len(HotspotRecords)
               /\ Len(SourcesRequests) =
                     Len(SelectSeq(IssueRecords, RecordHasLine)) + Len(SelectSeq(HotspotRecords, RecordHasLine))
\* rules were requested in a run that fetched a snippet
C27_Witness ==
    /\ rl_requests # <<>>
    /\ SourcesRequests # <<>>
    /\ hs_requests # <<>>

C29_EndsWithoutTotal ==
    (~srv_has_total /\ pg_pc = "done")
    => (pg_outcome = "return" /\ all_items = Flatten(pg_pages))

\* C30: in fetch_all_hotspots a failing request for page k ends the
\* pagination without an exception: no page is requested after it, the
\* result holds the hotspots of the pages before it in the server's order,
\* paging.total and paging.pageSize of the result are the number of
\* hotspots returned (after a failure and without one), and get_report_data
\* goes on to process that list.
C30_HotspotPageFailureKeepsEarlierPages ==
    /\ Len(hs_requests) = Len(hs_pages)
    /\ \A i \in DOMAIN hs_requests : hs_requests[i].p = i
    /\ \A i \in DOMAIN hs_pages : ~hs_pages[i].ok => (i = Len(hs_pages) /\ hs_pc = "done")
    /\ hs_pc = "done"
            => /\ hs_result.hotspots = Flatten([i \in DOMAIN hs_pages |-> hs_pages[i].hotspots])
               /\ hs_result.hotspots = [i \in 1..Len(hs_result.hotspots) |-> i]
               /\ hs_result.paging.total = Len(hs_result.hotspots)
               /\ hs_result.paging.pageSize = Len(hs_result.hotspots)
    /\ gd_pc \in {"issue_loop", "hotspot_loop", "rules", "done"} /\ hs_requests # <<>>
            => hotspots_data = hs_result
    /\ gd_pc \in {"rules", "done"} /\ hs_requests # <<>>
            => Len(gd_hotspots) = Len(hs_result.hotspots)
\* the request for page 2 failed, the hotspot of page 1 was returned and
\* get_report_data has processed it
C30_Witness ==
    /\ gd_pc = "done"
    /\ Len(hs_pages) = 2
    /\ hs_pages[1].ok
    /\ ~hs_pages[2].ok
    /\ hs_result.hotspots = <<1>>
    /\ Len(gd_hotspots) = 1

\* -------------------------------------------------------------------------
\* main and handle_interrupt (src/src/main.py)
\* -------------------------------------------------------------------------
\* the command lines: project and token given; the project key missing; a
\* --config file that cannot be opened
ArgsChoices == {"valid", "no_project", "bad_config"}
\* what generate_pdf does: it returns the path written or raises
RenderOutcomes == {"ok", "PermissionError", "FileNotFoundError", "Exception"}
\* lines 101-135: the except clause that catches an exception of the try
\* block. The ConnectionError of requests is not the builtin ConnectionError
\* of line 106, so the errors of the collector reach `except Exception`.
ExceptClause(exc) ==
    IF exc \in {"KeyboardInterrupt", "PermissionError", "FileNotFoundError"} THEN exc
    ELSE "Exception"
\* the value every except clause returns (lines 105, 110, 115, 120, 135)
ErrorStatus == 1

\* lines 64-66: main() is entered and installs handle_interrupt for SIGINT
MainCall ==
    /\ mn_pc = "idle"
    /\ mn_pc' = "parse"
    /\ UNCHANGED <<mn_args, mn_status, mn_end>>

\* lines 68-73: parse_arguments and the second read of the config file.
\* parser.error (lines 49-52) ends the process with status 2; open() of a
\* missing config file raises FileNotFoundError, caught at line 116.
ParseArguments ==
    /\ mn_pc = "parse"
    /\ CASE mn_args = "no_project" ->
                mn_pc' = "done" /\ mn_status' = 2 /\ mn_end' = "usage"
         [] mn_args = "bad_config" ->
                mn_pc' = "done" /\ mn_status' = ErrorStatus /\ mn_end' = ExceptClause("FileNotFoundError")
         [] OTHER ->
                mn_pc' = "collect" /\ UNCHANGED <<mn_status, mn_end>>
    /\ UNCHANGED mn_args

\* line 87: get_report_data has ended: with the report main goes on to
\* generate_pdf, an exception is caught by its except clause
MainCollected ==
    /\ mn_pc = "collect"
    /\ gd_pc = "done"
    /\ IF gd_outcome.kind = "return"
       THEN mn_pc' = "render" /\ UNCHANGED <<mn_status, mn_end>>
       ELSE mn_pc' = "done" /\ mn_status' = ErrorStatus /\ mn_end' = ExceptClause(gd_outcome.exc)
    /\ UNCHANGED mn_args

\* lines 95-101: generate_pdf returns and main returns 0, or it raises
GeneratePdf ==
    /\ mn_pc = "render"
    /\ \E outcome \in RenderOutcomes :
        IF outcome = "ok"
        THEN mn_status' = 0 /\ mn_end' = "success"
        ELSE mn_status' = ErrorStatus /\ mn_end' = ExceptClause(outcome)
    /\ mn_pc' = "done"
    /\ UNCHANGED mn_args

\* lines 101-105: a KeyboardInterrupt is raised inside the try block
KeyboardInterruptRaised ==
    /\ mn_pc \in {"parse", "collect", "render"}
    /\ mn_pc' = "done"
    /\ mn_status' = ErrorStatus
    /\ mn_end' = ExceptClause("KeyboardInterrupt")
    /\ UNCHANGED mn_args

\* lines 56-61: SIGINT arrives while main runs: handle_interrupt calls
\* sys.exit(0); SystemExit is caught by no except clause of main
HandleInterrupt ==
    /\ mn_pc \in {"parse", "collect", "render"}
    /\ mn_pc' = "done"
    /\ mn_status' = 0
    /\ mn_end' = "sigint"
    /\ UNCHANGED mn_args

\* -------------------------------------------------------- claims about main
\* C25 (as claimed): a successful run ends with status 0; a user interrupt,
\* delivered to the signal handler or surfacing as KeyboardInterrupt, ends
\* the process with a status that is not 0 and differs from the status of
\* the connection, permission, file and unclassified errors.
C25_InterruptStatusDistinct ==
    mn_pc = "done" =>
        /\ mn_end = "success" => mn_status = 0
        /\ mn_end \in {"sigint", "KeyboardInterrupt"} => mn_status \notin {0, ErrorStatus}

\* -------------------------------------------------------------------------
\* the specifications
\* -------------------------------------------------------------------------
NoCall == [requests |-> <<>>, result |-> <<>>, outcome |-> "pending", params |-> EmptyDict]

IdleRequest ==
    /\ max_retries = 0
    /\ retry_delay = 1
    /\ rq_pc = "idle"
    /\ rq_stream = FALSE
    /\ retries = 0
    /\ rq_events = <<>>
    /\ rq_slept = 0
    /\ rq_outcome = Pending

IdleServer ==
    /\ srv_items = 0
    /\ srv_total = 0
    /\ srv_has_total = TRUE
    /\ srv_cap = 0
    /\ srv_mode = "paged"
    /\ srv_issues = 0

IdlePaginate ==
    /\ endpoint = IssuesEndpoint
    /\ params = EmptyDict
    /\ page_size = 1
    /\ max_pages = 0
    /\ pg_pc = "idle"
    /\ all_items = <<>>
    /\ page = 1
    /\ total_items = None
    /\ pg_call = 0
    /\ pg_requests = <<>>
    /\ pg_pages = <<>>
    /\ pg_sleeps = 0
    /\ pg_outcome = "pending"
    /\ pg_first = NoCall

IdleHotspots ==
    /\ hs_pc = "idle"
    /\ all_hotspots = <<>>
    /\ hs_page = 1
    /\ hs_requests = <<>>
    /\ hs_pages = <<>>
    /\ hs_result = NoResult

IdleMode ==
    /\ md_issues = <<>>
    /\ md_utils = <<>>
    /\ md_pdfgen = <<>>

IdleClassify ==
    /\ so_utils = NoOrderCall
    /\ so_pdfgen = NoOrderCall
    /\ cl_issues = <<>>
    /\ cl_mode = "STANDARD"
    /\ cl_sections = EmptyDict
    /\ cl_pdf_mode = ""
    /\ cl_pdf_sections = EmptyDict

IdleCollect ==
    /\ rl_pc = "idle"
    /\ rule_keys = <<>>
    /\ rl_idx = 1
    /\ rl_rules = EmptyDict
    /\ rl_requests = <<>>
    /\ rl_result = EmptyDict
    /\ gd_pc = "idle"
    /\ gd_requests = <<>>
    /\ component_data = EmptyDict
    /\ issues_data = EmptyDict
    /\ measures_data = EmptyDict
    /\ settings_data = EmptyDict
    /\ hotspots_data = NoResult
    /\ gd_project = ProjectFromDict(EmptyDict)
    /\ gd_issues = <<>>
    /\ gd_measures = EmptyDict
    /\ gd_hotspots = <<>>
    /\ gd_outcome = NotReturned

IdleMain ==
    /\ mn_pc = "idle"
    /\ mn_args = "valid"
    /\ mn_status = None
    /\ mn_end = ""

InitServer ==
    /\ srv_items \in 0..MaxItems
    /\ srv_total \in 0..MaxTotal
    /\ srv_has_total \in BOOLEAN
    /\ srv_has_total = FALSE => srv_total = 0
    /\ srv_cap \in 0..MaxServerCap
    /\ srv_mode \in {"paged", "stuck", "erratic"}
    /\ srv_mode = "erratic" => srv_items = 0 /\ srv_cap = 0
    /\ srv_issues = 0

InitRequest ==
    /\ max_retries \in 0..MaxRetries
    /\ retry_delay \in 1..MaxDelay
    /\ rq_pc = "idle"
    /\ rq_stream = FALSE
    /\ retries = 0
    /\ rq_events = <<>>
    /\ rq_slept = 0
    /\ rq_outcome = Pending
    /\ IdleServer
    /\ IdlePaginate
    /\ IdleHotspots
    /\ IdleMode
    /\ IdleClassify
    /\ IdleCollect
    /\ IdleMain

NextRequest ==
    \/ RequestCall /\ UNCHANGED <<srvVars, pgVars, hsVars, mdVars, clVars, rlVars, gdVars, mnVars>>
    \/ AttemptRateLimited /\ UNCHANGED <<srvVars, pgVars, hsVars, mdVars, clVars, rlVars, gdVars, mnVars>>
    \/ AttemptSuccess /\ UNCHANGED <<srvVars, pgVars, hsVars, mdVars, clVars, rlVars, gdVars, mnVars>>
    \/ AttemptFailed /\ UNCHANGED <<srvVars, pgVars, hsVars, mdVars, clVars, rlVars, gdVars, mnVars>>

InitPaginate ==
    /\ IdleRequest
    /\ InitServer
    /\ endpoint \in Endpoints
    /\ params \in ParamsChoices
    /\ page_size \in 1..MaxPageSize
    /\ max_pages \in 0..MaxPageCap
    /\ pg_pc = "idle"
    /\ all_items = <<>>
    /\ page = 1
    /\ total_items = None
    /\ pg_call = 0
    /\ pg_requests = <<>>
    /\ pg_pages = <<>>
    /\ pg_sleeps = 0
    /\ pg_outcome = "pending"
    /\ pg_first = NoCall
    /\ IdleHotspots
    /\ IdleMode
    /\ IdleClassify
    /\ IdleCollect
    /\ IdleMain

NextPaginate ==
    \/ PaginateCall /\ UNCHANGED <<rqVars, hsVars, mdVars, clVars, rlVars, gdVars, mnVars>>
    \/ FetchPage /\ UNCHANGED <<rqVars, hsVars, mdVars, clVars, rlVars, gdVars, mnVars>>

InitHotspots ==
    /\ IdleRequest
    /\ IdlePaginate
    /\ InitServer
    /\ IdleHotspots
    /\ IdleMode
    /\ IdleClassify
    /\ IdleCollect
    /\ IdleMain

NextHotspots ==
    \/ FetchAllHotspotsCall /\ UNCHANGED <<rqVars, pgVars, mdVars, clVars, rlVars, gdVars, mnVars>>
    \/ HotspotsPage /\ UNCHANGED <<rqVars, pgVars, mdVars, clVars, rlVars, gdVars, mnVars>>
    \/ HotspotsPageFails /\ UNCHANGED <<rqVars, pgVars, mdVars, clVars, rlVars, gdVars, mnVars>>

InitMode ==
    /\ IdleRequest
    /\ IdleServer
    /\ IdlePaginate
    /\ IdleHotspots
    /\ md_issues \in SeqsUpTo(Issues, MaxFindings)
    /\ md_utils = <<>>
    /\ md_pdfgen = <<>>
    /\ IdleClassify
    /\ IdleCollect
    /\ IdleMain

NextMode ==
    \/ CallDetectModeUtils /\ UNCHANGED <<rqVars, srvVars, pgVars, hsVars, clVars, rlVars, gdVars, mnVars>>
    \/ CallDetectModePdfgen /\ UNCHANGED <<rqVars, srvVars, pgVars, hsVars, clVars, rlVars, gdVars, mnVars>>

InitSeverity ==
    /\ IdleRequest
    /\ IdleServer
    /\ IdlePaginate
    /\ IdleHotspots
    /\ IdleMode
    /\ IdleClassify
    /\ IdleCollect
    /\ IdleMain

NextSeverity ==
    \/ CallGetSeverityOrderUtils /\ UNCHANGED <<rqVars, srvVars, pgVars, hsVars, mdVars, rlVars, gdVars, mnVars>>
    \/ CallGetSeverityOrderPdfgen /\ UNCHANGED <<rqVars, srvVars, pgVars, hsVars, mdVars, rlVars, gdVars, mnVars>>

InitSections ==
    /\ IdleRequest
    /\ IdleServer
    /\ IdlePaginate
    /\ IdleHotspots
    /\ IdleMode
    /\ so_utils = NoOrderCall
    /\ so_pdfgen = NoOrderCall
    /\ cl_issues \in {<<>>} \cup {<<f>> : f \in Findings}
    /\ cl_mode \in Modes
    /\ cl_sections = EmptyDict
    /\ cl_pdf_mode = ""
    /\ cl_pdf_sections = EmptyDict
    /\ IdleCollect
    /\ IdleMain

NextSections ==
    \/ GenerateIssuesPage /\ UNCHANGED <<rqVars, srvVars, pgVars, hsVars, mdVars, rlVars, gdVars, mnVars>>
    \/ GeneratePdfIssueSections /\ UNCHANGED <<rqVars, srvVars, pgVars, hsVars, mdVars, rlVars, gdVars, mnVars>>

InitRules ==
    /\ IdleRequest
    /\ IdleServer
    /\ IdlePaginate
    /\ IdleHotspots
    /\ IdleMode
    /\ IdleClassify
    /\ rl_pc = "call"
    /\ rule_keys \in UNION {Orderings(S) : S \in {T \in SUBSET RuleKeyChoices : Cardinality(T) <= MaxRuleKeys}}
    /\ rl_idx = 1
    /\ rl_rules = EmptyDict
    /\ rl_requests = <<>>
    /\ rl_result = EmptyDict
    /\ gd_pc = "idle"
    /\ gd_requests = <<>>
    /\ component_data = EmptyDict
    /\ issues_data = EmptyDict
    /\ measures_data = EmptyDict
    /\ settings_data = EmptyDict
    /\ hotspots_data = NoResult
    /\ gd_project = ProjectFromDict(EmptyDict)
    /\ gd_issues = <<>>
    /\ gd_measures = EmptyDict
    /\ gd_hotspots = <<>>
    /\ gd_outcome = NotReturned
    /\ IdleMain

NextRules ==
    \/ GetRulesCall /\ UNCHANGED <<rqVars, srvVars, pgVars, hsVars, mdVars, clVars, gdVars, mnVars>>
    \/ FetchRule /\ UNCHANGED <<rqVars, srvVars, pgVars, hsVars, mdVars, clVars, gdVars, mnVars>>

\* the server of get_report_data holds up to MaxHotspots hotspots and reports
\* their number
InitCollect ==
    /\ IdleRequest
    /\ srv_items \in 0..MaxHotspots
    /\ srv_total = srv_items
    /\ srv_has_total = TRUE
    /\ srv_cap = 0
    /\ srv_mode = "paged"
    /\ srv_issues \in 0..MaxIssues
    /\ IdlePaginate
    /\ IdleHotspots
    /\ IdleMode
    /\ IdleClassify
    /\ IdleCollect
    /\ IdleMain

\* a server that may serve the hotspots in pages of one
InitCollectPaged ==
    /\ IdleRequest
    /\ srv_items \in 0..MaxPagedHotspots
    /\ srv_total = srv_items
    /\ srv_has_total = TRUE
    /\ srv_cap \in 0..MaxServerCap
    /\ srv_mode = "paged"
    /\ srv_issues \in {0, 1}
    /\ IdlePaginate
    /\ IdleHotspots
    /\ IdleMode
    /\ IdleClassify
    /\ IdleCollect
    /\ IdleMain

\* a project with more issues than one page of /api/issues/search holds
InitCollectLarge ==
    /\ IdleRequest
    /\ srv_items \in 0..MaxHotspots
    /\ srv_total = srv_items
    /\ srv_has_total = TRUE
    /\ srv_cap = 0
    /\ srv_mode = "paged"
    /\ srv_issues = IssuesPageSize + 1
    /\ IdlePaginate
    /\ IdleHotspots
    /\ IdleMode
    /\ IdleClassify
    /\ IdleCollect
    /\ IdleMain

NextCollect ==
    \/ GetReportDataCall /\ UNCHANGED <<rqVars, srvVars, pgVars, hsVars, mdVars, clVars, mnVars>>
    \/ FetchComponent /\ UNCHANGED <<rqVars, srvVars, pgVars, hsVars, mdVars, clVars, mnVars>>
    \/ FetchIssues /\ UNCHANGED <<rqVars, srvVars, pgVars, hsVars, mdVars, clVars, mnVars>>
    \/ FetchMeasures /\ UNCHANGED <<rqVars, srvVars, pgVars, hsVars, mdVars, clVars, mnVars>>
    \/ FetchSettings /\ UNCHANGED <<rqVars, srvVars, pgVars, hsVars, mdVars, clVars, mnVars>>
    \/ gd_pc = "hotspots" /\ FetchAllHotspotsCall /\ UNCHANGED <<rqVars, pgVars, mdVars, clVars, rlVars, gdVars, mnVars>>
    \/ gd_pc = "hotspots" /\ HotspotsPage /\ UNCHANGED <<rqVars, pgVars, mdVars, clVars, rlVars, gdVars, mnVars>>
    \/ gd_pc = "hotspots" /\ HotspotsPageFails /\ UNCHANGED <<rqVars, pgVars, mdVars, clVars, rlVars, gdVars, mnVars>>
    \/ StartProcessing /\ UNCHANGED <<rqVars, srvVars, pgVars, hsVars, mdVars, clVars, mnVars>>
    \/ ProcessIssue /\ UNCHANGED <<rqVars, srvVars, pgVars, hsVars, mdVars, clVars, mnVars>>
    \/ BuildMeasures /\ UNCHANGED <<rqVars, srvVars, pgVars, hsVars, mdVars, clVars, mnVars>>
    \/ ProcessHotspot /\ UNCHANGED <<rqVars, srvVars, pgVars, hsVars, mdVars, clVars, mnVars>>
    \/ CollectRuleKeys /\ UNCHANGED <<rqVars, srvVars, pgVars, hsVars, mdVars, clVars, mnVars>>
    \/ gd_pc = "rules" /\ GetRulesCall /\ UNCHANGED <<rqVars, srvVars, pgVars, hsVars, mdVars, clVars, gdVars, mnVars>>
    \/ gd_pc = "rules" /\ FetchRule /\ UNCHANGED <<rqVars, srvVars, pgVars, hsVars, mdVars, clVars, gdVars, mnVars>>
    \/ AssembleReport /\ UNCHANGED <<rqVars, srvVars, pgVars, hsVars, mdVars, clVars, mnVars>>
    \/ FetchNeverAnswered /\ UNCHANGED <<rqVars, pgVars, mdVars, clVars, mnVars>>

\* main runs against a small project
InitMain ==
    /\ IdleRequest
    /\ srv_items \in 0..MaxHotspots
    /\ srv_total = srv_items
    /\ srv_has_total = TRUE
    /\ srv_cap = 0
    /\ srv_mode = "paged"
    /\ srv_issues \in {0, 1}
    /\ IdlePaginate
    /\ IdleHotspots
    /\ IdleMode
    /\ IdleClassify
    /\ IdleCollect
    /\ mn_pc = "idle"
    /\ mn_args \in ArgsChoices
    /\ mn_status = None
    /\ mn_end = ""

NextMain ==
    \/ MainCall /\ UNCHANGED <<rqVars, srvVars, pgVars, hsVars, mdVars, clVars, rlVars, gdVars>>
    \/ ParseArguments /\ UNCHANGED <<rqVars, srvVars, pgVars, hsVars, mdVars, clVars, rlVars, gdVars>>
    \/ mn_pc = "collect" /\ GetReportDataCall /\ UNCHANGED <<rqVars, srvVars, pgVars, hsVars, mdVars, clVars, mnVars>>
    \/ mn_pc = "collect" /\ FetchComponent /\ UNCHANGED <<rqVars, srvVars, pgVars, hsVars, mdVars, clVars, mnVars>>
    \/ mn_pc = "collect" /\ FetchIssues /\ UNCHANGED <<rqVars, srvVars, pgVars, hsVars, mdVars, clVars, mnVars>>
    \/ mn_pc = "collect" /\ FetchMeasures /\ UNCHANGED <<rqVars, srvVars, pgVars, hsVars, mdVars, clVars, mnVars>>
    \/ mn_pc = "collect" /\ FetchSettings /\ UNCHANGED <<rqVars, srvVars, pgVars, hsVars, mdVars, clVars, mnVars>>
    \/ mn_pc = "collect" /\ gd_pc = "hotspots" /\ FetchAllHotspotsCall /\ UNCHANGED <<rqVars, pgVars, mdVars, clVars, rlVars, gdVars, mnVars>>
    \/ mn_pc = "collect" /\ gd_pc = "hotspots" /\ HotspotsPage /\ UNCHANGED <<rqVars, pgVars, mdVars, clVars, rlVars, gdVars, mnVars>>
    \/ mn_pc = "collect" /\ gd_pc = "hotspots" /\ HotspotsPageFails /\ UNCHANGED <<rqVars, pgVars, mdVars, clVars, rlVars, gdVars, mnVars>>
    \/ mn_pc = "collect" /\ StartProcessing /\ UNCHANGED <<rqVars, srvVars, pgVars, hsVars, mdVars, clVars, mnVars>>
    \/ mn_pc = "collect" /\ ProcessIssue /\ UNCHANGED <<rqVars, srvVars, pgVars, hsVars, mdVars, clVars, mnVars>>
    \/ mn_pc = "collect" /\ BuildMeasures /\ UNCHANGED <<rqVars, srvVars, pgVars, hsVars, mdVars, clVars, mnVars>>
    \/ mn_pc = "collect" /\ ProcessHotspot /\ UNCHANGED <<rqVars, srvVars, pgVars, hsVars, mdVars, clVars, mnVars>>
    \/ mn_pc = "collect" /\ CollectRuleKeys /\ UNCHANGED <<rqVars, srvVars, pgVars, hsVars, mdVars, clVars, mnVars>>
    \/ mn_pc = "collect" /\ gd_pc = "rules" /\ GetRulesCall /\ UNCHANGED <<rqVars, srvVars, pgVars, hsVars, mdVars, clVars, gdVars, mnVars>>
    \/ mn_pc = "collect" /\ gd_pc = "rules" /\ FetchRule /\ UNCHANGED <<rqVars, srvVars, pgVars, hsVars, mdVars, clVars, gdVars, mnVars>>
    \/ mn_pc = "collect" /\ AssembleReport /\ UNCHANGED <<rqVars, srvVars, pgVars, hsVars, mdVars, clVars, mnVars>>
    \/ mn_pc = "collect" /\ FetchNeverAnswered /\ UNCHANGED <<rqVars, pgVars, mdVars, clVars, mnVars>>
    \/ MainCollected /\ UNCHANGED <<rqVars, srvVars, pgVars, hsVars, mdVars, clVars, rlVars, gdVars>>
    \/ GeneratePdf /\ UNCHANGED <<rqVars, srvVars, pgVars, hsVars, mdVars, clVars, rlVars, gdVars>>
    \/ KeyboardInterruptRaised /\ UNCHANGED <<rqVars, srvVars, pgVars, hsVars, mdVars, clVars, rlVars, gdVars>>
    \/ HandleInterrupt /\ UNCHANGED <<rqVars, srvVars, pgVars, hsVars, mdVars, clVars, rlVars, gdVars>>

vars == <<rqVars, srvVars, pgVars, hsVars, mdVars, clVars, rlVars, gdVars, mnVars>>

SpecRequest == InitRequest /\ [][NextRequest]_vars

SpecPaginate == InitPaginate /\ [][NextPaginate]_vars

SpecHotspots == InitHotspots /\ [][NextHotspots]_vars

SpecMode == InitMode /\ [][NextMode]_vars

SpecSeverity == InitSeverity /\ [][NextSeverity]_vars

SpecSections == InitSections /\ [][NextSections]_vars

SpecRules == InitRules /\ [][NextRules]_vars

SpecCollect == InitCollect /\ [][NextCollect]_vars

SpecCollectLarge == InitCollectLarge /\ [][NextCollect]_vars

\* get_report_data runs on: a step that is possible is taken
SpecCollectLive == InitCollect /\ [][NextCollect]_vars /\ WF_vars(NextCollect)

SpecCollectPaged == InitCollectPaged /\ [][NextCollect]_vars

SpecMain == InitMain /\ [][NextMain]_vars

====
